---- MODULE Spec2Model ----
(***************************************************************************)
(* Model of the biotech options rater: the JSON-backed EventStore          *)
(* (storage/event_store.py), the data model (models/event.py,              *)
(* models/rating.py) and the scoring engine (engine/scorer.py,             *)
(* collectors/catalyst_tracker.py).                                        *)
(*                                                                         *)
(* Encoding of Python values:                                              *)
(*   None is <<>>, a present optional value x is <<x>>;                    *)
(*   an Enum member is its member name ("FDA_PDUFA"), its .value the       *)
(*   lower-case string the source gives it ("fda_pdufa");                  *)
(*   a date is a record [year, month, day], its isoformat() text the       *)
(*   triple <<year, month, day>>;                                          *)
(*   a list is a sequence, a dict a record (a function on its keys);       *)
(*   scores, percentages and weights are integers in hundredths            *)
(*   (98.25 is 9825, weight 0.25 is 25); price moves are integers in       *)
(*   ten-thousandths of a percent, the precision of round(x, 4).           *)
(***************************************************************************)
EXTENDS Integers, Sequences, FiniteSets, TLC

VARIABLES
    eventsFile,   \* data/events.json: [exists, json_ok, rows]
    ratingsFile,  \* data/ratings.json: [exists, json_ok, rows]
    last,         \* the store call that returned last, with what it returned
    latest,       \* per event_id, the rating of the latest save_rating call
    today,        \* date.today(), as a day of the modelled month
    cur,          \* the OptionsRating, or the Event, the caller holds (or None)
    call,         \* the arguments of the score_event call that made cur, of
                  \* the command run last, or the positions of the
                  \* save_event calls under way
    probe         \* input and result of the pure function applied last

vars == <<eventsFile, ratingsFile, last, latest, today, cur, call, probe>>

NONE == <<>>
Some(x) == <<x>>

\* d.get(k, default)
Get(d, k, default) == IF k \in DOMAIN d THEN d[k] ELSE default

\* [f(x) for x in s]
RECURSIVE MapSeq(_, _)
MapSeq(F(_), s) == IF s = <<>> THEN <<>> ELSE <<F(Head(s))>> \o MapSeq(F, Tail(s))

\* [x for x in s if P(x)]
RECURSIVE FilterSeq(_, _)
FilterSeq(P(_), s) ==
    IF s = <<>> THEN <<>>
    ELSE (IF P(Head(s)) THEN <<Head(s)>> ELSE <<>>) \o FilterSeq(P, Tail(s))

\* every list over S of length at most n
SeqsUpTo(S, n) == UNION {[1..k -> S] : k \in 0..n}

(***************************************************************************)
(* models/event.py                                                         *)
(***************************************************************************)
EventType == [
    FDA_PDUFA        |-> "fda_pdufa",
    FDA_ADCOM        |-> "fda_adcom",
    CLINICAL_READOUT |-> "clinical_readout",
    EARNINGS         |-> "earnings",
    CONFERENCE_PRES  |-> "conference_pres",
    PARTNERSHIP      |-> "partnership",
    SEC_FILING       |-> "sec_filing",
    MACRO_RELEASE    |-> "macro_release",
    COMPETITOR_EVENT |-> "competitor_event"]
    @@ ("OTHER" :> "other")

EventOutcome == [
    PENDING   |-> "pending",
    POSITIVE  |-> "positive",
    NEGATIVE  |-> "negative",
    MIXED     |-> "mixed",
    WITHDRAWN |-> "withdrawn"]

SentimentTag == [
    STRONG_BUY  |-> "strong_buy",
    BUY         |-> "buy",
    NEUTRAL     |-> "neutral",
    SELL        |-> "sell",
    STRONG_SELL |-> "strong_sell"]

\* Enum(value): the member with that value; a ValueError when there is none
IsEnumValue(enum, v) == \E m \in DOMAIN enum : enum[m] = v
EnumOf(enum, v) == CHOOSE m \in DOMAIN enum : enum[m] = v

\* date.isoformat() and date.fromisoformat()
isoformat(d) == <<d.year, d.month, d.day>>
fromisoformat(s) == [year |-> s[1], month |-> s[2], day |-> s[3]]

\* MarketContext(): every field defaults to None
MarketContext(spy, xbi, vix, trend, notes) ==
    [spy_5d_return |-> spy, xbi_5d_return |-> xbi, vix_level |-> vix,
     sector_trend |-> trend, notes |-> notes]

\* round(x, 4) of a value held in ten-thousandths
Round4(x) == x

\* a relative_move that takes a move of 0 for an absent one
relative_move_truthy(e) ==
    IF e.actual_move_pct \notin {NONE, Some(0)} /\ e.spy_move_pct \notin {NONE, Some(0)}
    THEN Some(Round4(e.actual_move_pct[1] - e.spy_move_pct[1]))
    ELSE NONE

relative_move(e) ==
    IF e.actual_move_pct /= NONE /\ e.spy_move_pct /= NONE
    THEN Some(Round4(e.actual_move_pct[1] - e.spy_move_pct[1]))
    ELSE NONE

xbi_relative_move(e) ==
    IF e.actual_move_pct /= NONE /\ e.xbi_move_pct /= NONE
    THEN Some(Round4(e.actual_move_pct[1] - e.xbi_move_pct[1]))
    ELSE NONE

\* BiotechEvent.to_dict
EventToDictBase(e) == [
    event_id          |-> e.event_id,
    ticker            |-> e.ticker,
    company_name      |-> e.company_name,
    event_type        |-> EventType[e.event_type],
    event_date        |-> isoformat(e.event_date),
    description       |-> e.description,
    sentiment         |-> SentimentTag[e.sentiment],
    analyst_notes     |-> e.analyst_notes,
    pipeline_stage    |-> e.pipeline_stage,
    indication        |-> e.indication,
    primary_endpoint  |-> e.primary_endpoint,
    competing_drugs   |-> e.competing_drugs,
    outcome           |-> EventOutcome[e.outcome],
    actual_move_pct   |-> e.actual_move_pct,
    spy_move_pct      |-> e.spy_move_pct,
    xbi_move_pct      |-> e.xbi_move_pct,
    iv_crush_pct      |-> e.iv_crush_pct,
    relative_move     |-> relative_move(e),
    xbi_relative_move |-> xbi_relative_move(e),
    outcome_notes     |-> e.outcome_notes,
    tags              |-> e.tags]

(***************************************************************************)
(* storage/event_store.py: serialisation                                   *)
(***************************************************************************)
\* _event_to_dict
EventToDict(e) ==
    EventToDictBase(e) @@
    ("market_context" :>
        IF e.market_context /= NONE
        THEN Some([spy_5d_return |-> e.market_context[1].spy_5d_return,
                   xbi_5d_return |-> e.market_context[1].xbi_5d_return,
                   vix_level     |-> e.market_context[1].vix_level,
                   sector_trend  |-> e.market_context[1].sector_trend,
                   notes         |-> e.market_context[1].notes])
        ELSE NONE)

\* bool(x) of an optional dict: None and the empty dict are false
TruthyDict(x) == x /= NONE /\ DOMAIN x[1] /= {}

\* loses a MarketContext whose sector_trend is None
DictToMarketContextByTrend(d) ==
    LET mc_data == Get(d, "market_context", NONE) IN
    IF mc_data /= NONE /\ Get(mc_data[1], "sector_trend", NONE) /= NONE
    THEN Some(MarketContext(
            Get(mc_data[1], "spy_5d_return", NONE),
            Get(mc_data[1], "xbi_5d_return", NONE),
            Get(mc_data[1], "vix_level", NONE),
            Get(mc_data[1], "sector_trend", NONE),
            Get(mc_data[1], "notes", NONE)))
    ELSE NONE

\* _dict_to_event, lines 52-61
DictToMarketContext(d) ==
    LET mc_data == Get(d, "market_context", NONE) IN
    IF TruthyDict(mc_data)
    THEN Some(MarketContext(
            Get(mc_data[1], "spy_5d_return", NONE),
            Get(mc_data[1], "xbi_5d_return", NONE),
            Get(mc_data[1], "vix_level", NONE),
            Get(mc_data[1], "sector_trend", NONE),
            Get(mc_data[1], "notes", NONE)))
    ELSE NONE

\* _dict_to_event raises (KeyError, ValueError) on these rows
EventDecodes(d) ==
    /\ {"ticker", "company_name", "event_type", "event_date", "description"}
          \subseteq DOMAIN d
    /\ IsEnumValue(EventType, d.event_type)
    /\ IsEnumValue(SentimentTag, Get(d, "sentiment", "neutral"))
    /\ IsEnumValue(EventOutcome, Get(d, "outcome", "pending"))
    /\ Len(d.event_date) = 3

\* _dict_to_event
DictToEvent(d) == [
    event_id         |-> Get(d, "event_id", NONE),
    ticker           |-> d.ticker,
    company_name     |-> d.company_name,
    event_type       |-> EnumOf(EventType, d.event_type),
    event_date       |-> fromisoformat(d.event_date),
    description      |-> d.description,
    sentiment        |-> EnumOf(SentimentTag, Get(d, "sentiment", "neutral")),
    analyst_notes    |-> Get(d, "analyst_notes", ""),
    pipeline_stage   |-> Get(d, "pipeline_stage", NONE),
    indication       |-> Get(d, "indication", NONE),
    primary_endpoint |-> Get(d, "primary_endpoint", NONE),
    competing_drugs  |-> Get(d, "competing_drugs", <<>>),
    market_context   |-> DictToMarketContext(d),
    outcome          |-> EnumOf(EventOutcome, Get(d, "outcome", "pending")),
    actual_move_pct  |-> Get(d, "actual_move_pct", NONE),
    spy_move_pct     |-> Get(d, "spy_move_pct", NONE),
    xbi_move_pct     |-> Get(d, "xbi_move_pct", NONE),
    iv_crush_pct     |-> Get(d, "iv_crush_pct", NONE),
    outcome_notes    |-> Get(d, "outcome_notes", ""),
    tags             |-> Get(d, "tags", <<>>)]

(***************************************************************************)
(* models/rating.py                                                        *)
(***************************************************************************)
OptionsStrategy == [
    LONG_CALL        |-> "long_call",
    LONG_PUT         |-> "long_put",
    LONG_STRADDLE    |-> "long_straddle",
    LONG_STRANGLE    |-> "long_strangle",
    BULL_CALL_SPREAD |-> "bull_call_spread",
    BEAR_PUT_SPREAD  |-> "bear_put_spread",
    IRON_CONDOR      |-> "iron_condor",
    CASH_SECURED_PUT |-> "cash_secured_put",
    COVERED_CALL     |-> "covered_call",
    CALENDAR_SPREAD  |-> "calendar_spread",
    CUSTOM           |-> "custom"]

RatingGrade == [
    A_PLUS |-> "A+",
    A      |-> "A",
    B_PLUS |-> "B+",
    B      |-> "B",
    C      |-> "C",
    D      |-> "D",
    F      |-> "F"]

\* grade thresholds that take the boundary score into the lower band
score_to_grade_strict(score) ==
    IF score > 9000 THEN "A_PLUS"
    ELSE IF score > 8000 THEN "A"
    ELSE IF score > 7000 THEN "B_PLUS"
    ELSE IF score > 6000 THEN "B"
    ELSE IF score > 5000 THEN "C"
    ELSE IF score > 3000 THEN "D"
    ELSE "F"

\* score_to_grade, on a score in hundredths
score_to_grade(score) ==
    IF score >= 9000 THEN "A_PLUS"
    ELSE IF score >= 8000 THEN "A"
    ELSE IF score >= 7000 THEN "B_PLUS"
    ELSE IF score >= 6000 THEN "B"
    ELSE IF score >= 5000 THEN "C"
    ELSE IF score >= 3000 THEN "D"
    ELSE "F"

\* round(num / den) to the nearest integer, ties to even, den > 0: what
\* round(x, 2) is of an exact x = num / (100 * den)
RoundHalfEven(num, den) ==
    LET q == num \div den
        r == num % den
    IN  IF 2 * r < den THEN q
        ELSE IF 2 * r > den THEN q + 1
        ELSE IF q % 2 = 0 THEN q ELSE q + 1

Min(a, b) == IF a <= b THEN a ELSE b
Max(a, b) == IF a >= b THEN a ELSE b

BreakdownKeys == {"catalyst_quality", "sentiment_alignment", "market_context",
                  "iv_environment", "historical_accuracy", "competitive_moat",
                  "risk_reward"}

\* ScoreBreakdown.weighted_total: default_weights, in hundredths
default_weights == [
    catalyst_quality    |-> 25,
    sentiment_alignment |-> 15,
    market_context      |-> 15,
    iv_environment      |-> 15,
    historical_accuracy |-> 10,
    competitive_moat    |-> 10,
    risk_reward         |-> 10]

\* the weight-dot-product of weighted_total, in ten-thousandths
DotProduct(bd, w) ==
    bd.catalyst_quality    * Get(w, "catalyst_quality", 0) +
    bd.sentiment_alignment * Get(w, "sentiment_alignment", 0) +
    bd.market_context      * Get(w, "market_context", 0) +
    bd.iv_environment      * Get(w, "iv_environment", 0) +
    bd.historical_accuracy * Get(w, "historical_accuracy", 0) +
    bd.competitive_moat    * Get(w, "competitive_moat", 0) +
    bd.risk_reward         * Get(w, "risk_reward", 0)

\* a weighted total that is rounded and not clamped
weighted_total_unclamped(bd, weights) ==
    LET w == IF TruthyDict(weights) THEN weights[1] ELSE default_weights
    IN  RoundHalfEven(DotProduct(bd, w), 100)

\* ScoreBreakdown.weighted_total: round(min(max(total, 0), 100), 2)
weighted_total(bd, weights) ==
    LET w     == IF TruthyDict(weights) THEN weights[1] ELSE default_weights
        total == DotProduct(bd, w)
    IN  RoundHalfEven(Min(Max(total, 0), 1000000), 100)

\* ScoreBreakdown.to_dict
BreakdownToDict(bd) == [
    catalyst_quality    |-> bd.catalyst_quality,
    sentiment_alignment |-> bd.sentiment_alignment,
    market_context      |-> bd.market_context,
    iv_environment      |-> bd.iv_environment,
    historical_accuracy |-> bd.historical_accuracy,
    competitive_moat    |-> bd.competitive_moat,
    risk_reward         |-> bd.risk_reward]

\* OptionsRating(...): the dataclass constructor followed by __post_init__,
\* which sets composite_score and grade from the default weights
OptionsRating(event_id, ticker, rating_date, recommended_strategy, score_breakdown, confidence_pct, target_expiry_days, suggested_delta, max_risk_pct_port, notes, analyst_flags) == [
    event_id             |-> event_id,
    ticker               |-> ticker,
    rating_date          |-> rating_date,
    recommended_strategy |-> recommended_strategy,
    score_breakdown      |-> score_breakdown,
    composite_score      |-> weighted_total(score_breakdown, NONE),
    grade                |-> score_to_grade(weighted_total(score_breakdown, NONE)),
    confidence_pct       |-> confidence_pct,
    target_expiry_days   |-> target_expiry_days,
    suggested_delta      |-> suggested_delta,
    max_risk_pct_port    |-> max_risk_pct_port,
    notes                |-> notes,
    analyst_flags        |-> analyst_flags]

\* OptionsRating.refresh_score
refresh_score(rating, weights) == [rating EXCEPT
    !.composite_score = weighted_total(rating.score_breakdown, weights),
    !.grade = score_to_grade(weighted_total(rating.score_breakdown, weights))]

\* OptionsRating.to_dict
RatingToDict(r) == [
    event_id             |-> r.event_id,
    ticker               |-> r.ticker,
    rating_date          |-> isoformat(r.rating_date),
    recommended_strategy |-> OptionsStrategy[r.recommended_strategy],
    composite_score      |-> r.composite_score,
    grade                |-> RatingGrade[r.grade],
    confidence_pct       |-> r.confidence_pct,
    target_expiry_days   |-> r.target_expiry_days,
    suggested_delta      |-> r.suggested_delta,
    max_risk_pct_port    |-> r.max_risk_pct_port,
    score_breakdown      |-> BreakdownToDict(r.score_breakdown),
    analyst_flags        |-> r.analyst_flags,
    notes                |-> r.notes]

(***************************************************************************)
(* collectors/catalyst_tracker.py: the sub-scores it computes              *)
(***************************************************************************)
CATALYST_PRIORITY == [
    FDA_PDUFA        |-> 95,
    FDA_ADCOM        |-> 85,
    CLINICAL_READOUT |-> 80,
    PARTNERSHIP      |-> 55,
    EARNINGS         |-> 50,
    CONFERENCE_PRES  |-> 30,
    COMPETITOR_EVENT |-> 40,
    SEC_FILING       |-> 20,
    MACRO_RELEASE    |-> 35]
    @@ ("OTHER" :> 25)

\* the stage multiplier, in hundredths
PIPELINE_STAGE_WEIGHT ==
    ("Phase 1" :> 45) @@ ("Phase 1/2" :> 50) @@ ("Phase 2" :> 65) @@
    ("Phase 2/3" :> 75) @@ ("Phase 3" :> 90) @@ ("NDA filed" :> 92) @@
    ("BLA filed" :> 92) @@ ("PDUFA date" :> 95) @@ ("Approved" :> 100) @@
    ("Marketed" :> 100) @@ ("Preclinical" :> 30)

\* len(s) of the texts the modelled events carry
StrLen(s) ==
    CASE s = "" -> 0
      [] s = "OS >= 3 mo" -> 10
      [] s = "ORR >= 30 %" -> 11
      [] s = "OS improvement >= 3mo" -> 21

BinaryEvents == {"FDA_PDUFA", "FDA_ADCOM", "CLINICAL_READOUT"}

\* bool(s) of an optional string: None and "" are false
TruthyStr(s) == s /= NONE /\ s[1] /= ""

\* a catalyst quality that applies the stage multiplier to every event type
catalyst_quality_score_any_type(event) ==
    LET base == Get(CATALYST_PRIORITY, event.event_type, 25)
        stage_mult ==
            IF TruthyStr(event.pipeline_stage)
            THEN Get(PIPELINE_STAGE_WEIGHT, event.pipeline_stage[1], 70)
            ELSE 100
        raw0 == base * stage_mult
        raw1 == IF TruthyStr(event.primary_endpoint)
                   /\ StrLen(event.primary_endpoint[1]) > 10
                THEN Min(raw0 + 500, 10000) ELSE raw0
        sentiment_adj == [STRONG_BUY |-> 800, BUY |-> 400, NEUTRAL |-> 0,
                          SELL |-> -400, STRONG_SELL |-> -800]
        raw2 == raw1 + Get(sentiment_adj, event.sentiment, 0)
    IN  Min(Max(raw2, 0), 10000)

\* a catalyst quality that applies no pipeline-stage multiplier
catalyst_quality_score_unstaged(event) ==
    LET raw0 == 100 * Get(CATALYST_PRIORITY, event.event_type, 25)
        raw1 == IF TruthyStr(event.primary_endpoint)
                   /\ StrLen(event.primary_endpoint[1]) > 10
                THEN Min(raw0 + 500, 10000) ELSE raw0
        sentiment_adj == [STRONG_BUY |-> 800, BUY |-> 400, NEUTRAL |-> 0,
                          SELL |-> -400, STRONG_SELL |-> -800]
        raw2 == raw1 + Get(sentiment_adj, event.sentiment, 0)
    IN  Min(Max(raw2, 0), 10000)

\* catalyst_quality_score, in hundredths
catalyst_quality_score(event) ==
    LET base == Get(CATALYST_PRIORITY, event.event_type, 25)
        stage_mult ==
            IF TruthyStr(event.pipeline_stage) /\ event.event_type \in BinaryEvents
            THEN Get(PIPELINE_STAGE_WEIGHT, event.pipeline_stage[1], 70)
            ELSE 100
        raw0 == base * stage_mult
        raw1 == IF TruthyStr(event.primary_endpoint)
                   /\ StrLen(event.primary_endpoint[1]) > 10
                THEN Min(raw0 + 500, 10000) ELSE raw0
        sentiment_adj == [STRONG_BUY |-> 800, BUY |-> 400, NEUTRAL |-> 0,
                          SELL |-> -400, STRONG_SELL |-> -800]
        raw2 == raw1 + Get(sentiment_adj, event.sentiment, 0)
    IN  Min(Max(raw2, 0), 10000)

\* competitive_moat_score, in hundredths
competitive_moat_score(event) ==
    LET n_competitors == Len(event.competing_drugs) IN
    IF n_competitors = 0 THEN 8500
    ELSE IF n_competitors = 1 THEN 7000
    ELSE IF n_competitors <= 3 THEN 5500
    ELSE IF n_competitors <= 6 THEN 3500
    ELSE 2000

(***************************************************************************)
(* engine/scorer.py                                                        *)
(***************************************************************************)
\* an IV score whose sweet spot excludes its two edges
iv_environment_score_open(event, iv_rank) ==
    IF iv_rank /= NONE
    THEN (IF 4000 < iv_rank[1] /\ iv_rank[1] < 7000 THEN 8000
          ELSE IF 2000 < iv_rank[1] /\ iv_rank[1] <= 4000 THEN 6500
          ELSE IF iv_rank[1] >= 7000 THEN 5500
          ELSE 4000)
    ELSE IF event.event_type \in BinaryEvents THEN 6200
    ELSE IF event.event_type = "EARNINGS" THEN 6800
    ELSE IF event.event_type = "MACRO_RELEASE" THEN 5500
    ELSE 6000

\* _iv_environment_score; iv_rank in hundredths
iv_environment_score(event, iv_rank) ==
    IF iv_rank /= NONE
    THEN (IF 4000 <= iv_rank[1] /\ iv_rank[1] <= 7000 THEN 8000
          ELSE IF 2000 <= iv_rank[1] /\ iv_rank[1] < 4000 THEN 6500
          ELSE IF iv_rank[1] > 7000 THEN 5500
          ELSE 4000)
    ELSE IF event.event_type \in BinaryEvents THEN 6200
    ELSE IF event.event_type = "EARNINGS" THEN 6800
    ELSE IF event.event_type = "MACRO_RELEASE" THEN 5500
    ELSE 6000

\* _market_context_score; xbi_5d_return in ten-thousandths of a percent
market_context_score(event) ==
    LET ctx == event.market_context IN
    IF ctx = NONE THEN 5000
    ELSE
      LET trend_scores ==
              ("strong_risk_on" :> 85) @@ ("risk_on" :> 70) @@ ("neutral" :> 50)
              @@ ("risk_off" :> 30) @@ ("strong_risk_off" :> 15)
          trend == IF TruthyStr(ctx[1].sector_trend)
                   THEN ctx[1].sector_trend[1] ELSE "neutral"
          base == Get(trend_scores, trend, 50)
          xbi  == ctx[1].xbi_5d_return
      IN  100 *
          (IF event.event_type \in BinaryEvents /\ xbi /= NONE
           THEN (IF xbi[1] > 30000 THEN Min(base + 10, 100)
                 ELSE IF xbi[1] < -30000 THEN Max(base - 10, 0)
                 ELSE base)
           ELSE base)

\* _sentiment_alignment_score
sentiment_alignment_score(event) ==
    LET mapping == [STRONG_BUY |-> 9000, BUY |-> 7200, NEUTRAL |-> 5000,
                    SELL |-> 2800, STRONG_SELL |-> 1000]
    IN  Get(mapping, event.sentiment, 5000)

\* _historical_accuracy_score; past_events is None or a list of events
historical_accuracy_score(event, past_events) ==
    IF past_events = NONE \/ past_events[1] = <<>> THEN 5000
    ELSE
      LET SameType(e) == /\ e.ticker = event.ticker
                         /\ e.event_type = event.event_type
                         /\ e.outcome /= "PENDING"
          same_type == FilterSeq(SameType, past_events[1])
          IsPositive(e) == e.outcome \in {"POSITIVE", "MIXED"}
          positives == Len(FilterSeq(IsPositive, same_type))
      IN  IF same_type = <<>> THEN 5000
          ELSE RoundHalfEven(positives * 10000, Len(same_type))

\* _risk_reward_score
risk_reward_score(event) ==
    LET expected_move_proxy == [
            FDA_PDUFA        |-> 85,
            FDA_ADCOM        |-> 75,
            CLINICAL_READOUT |-> 70,
            PARTNERSHIP      |-> 50,
            EARNINGS         |-> 45,
            COMPETITOR_EVENT |-> 35,
            MACRO_RELEASE    |-> 30,
            CONFERENCE_PRES  |-> 25,
            SEC_FILING       |-> 15]
            @@ ("OTHER" :> 20)
    IN  100 * Get(expected_move_proxy, event.event_type, 30)

\* a decision table whose thresholds belong to the middle branch
recommend_strategy_strict(event, sentiment_score) ==
    IF event.event_type \in BinaryEvents \cup {"EARNINGS"}
    THEN (IF sentiment_score > 7000 THEN "BULL_CALL_SPREAD"
          ELSE IF sentiment_score < 3000 THEN "BEAR_PUT_SPREAD"
          ELSE IF event.event_type = "EARNINGS" THEN "IRON_CONDOR"
          ELSE "LONG_STRADDLE")
    ELSE IF event.event_type = "MACRO_RELEASE" THEN "CALENDAR_SPREAD"
    ELSE IF event.event_type = "PARTNERSHIP"
    THEN (IF sentiment_score > 6500 THEN "LONG_CALL" ELSE "BULL_CALL_SPREAD")
    ELSE "LONG_STRADDLE"

\* recommend_strategy; sentiment_score in hundredths
recommend_strategy(event, sentiment_score) ==
    IF event.event_type \in BinaryEvents
    THEN (IF sentiment_score >= 7000 THEN "BULL_CALL_SPREAD"
          ELSE IF sentiment_score <= 3000 THEN "BEAR_PUT_SPREAD"
          ELSE "LONG_STRADDLE")
    ELSE IF event.event_type = "EARNINGS"
    THEN (IF sentiment_score >= 7000 THEN "BULL_CALL_SPREAD"
          ELSE IF sentiment_score <= 3000 THEN "BEAR_PUT_SPREAD"
          ELSE "IRON_CONDOR")
    ELSE IF event.event_type = "MACRO_RELEASE" THEN "CALENDAR_SPREAD"
    ELSE IF event.event_type = "PARTNERSHIP"
    THEN (IF sentiment_score >= 6500 THEN "LONG_CALL" ELSE "BULL_CALL_SPREAD")
    ELSE "LONG_STRADDLE"

\* score_event, lines 286-295: grade_risk, in hundredths of a percent
grade_risk == [
    A_PLUS |-> 300,
    A      |-> 250,
    B_PLUS |-> 200,
    B      |-> 150,
    C      |-> 100,
    D      |-> 50,
    F      |-> 0]

\* score_event, lines 243-260: the seven sub-scores
ScoreBreakdownOf(event, iv_rank, past_events) == [
    catalyst_quality    |-> catalyst_quality_score(event),
    sentiment_alignment |-> sentiment_alignment_score(event),
    market_context      |-> market_context_score(event),
    iv_environment      |-> iv_environment_score(event, iv_rank),
    historical_accuracy |-> historical_accuracy_score(event, past_events),
    competitive_moat    |-> competitive_moat_score(event),
    risk_reward         |-> risk_reward_score(event)]

\* date.today(): the modelled days are days of one month
DateOfDay(day) == [year |-> 2026, month |-> 3, day |-> day]

\* a score_event that also refuses an event with no market context
ScoreEventRaisesNoContext(event) ==
    event.event_id = NONE \/ event.market_context = NONE

\* score_event raises ValueError
ScoreEventRaises(event) == event.event_id = NONE

\* score_event, lines 243-312, on the day date.today() returns
ScoreEventOn(day, event, iv_rank, past_events, custom_weights, confidence_override) ==
    LET breakdown == ScoreBreakdownOf(event, iv_rank, past_events)
        cq == breakdown.catalyst_quality
        sa == breakdown.sentiment_alignment
        ha == breakdown.historical_accuracy
        composite == weighted_total(breakdown, custom_weights)
        grade == score_to_grade(composite)
        strategy == recommend_strategy(event, sa)
        confidence == IF confidence_override /= NONE THEN confidence_override[1]
                      ELSE RoundHalfEven(cq + ha, 2)
        dte == IF event.event_type \in BinaryEvents THEN 35 ELSE 21
        delta == IF strategy \in {"LONG_STRADDLE", "LONG_STRANGLE", "IRON_CONDOR"}
                 THEN 35
                 ELSE IF strategy \in {"BULL_CALL_SPREAD", "LONG_CALL"} THEN 45
                 ELSE IF strategy \in {"BEAR_PUT_SPREAD", "LONG_PUT"} THEN -45
                 ELSE 40
        max_risk == Get(grade_risk, grade, 100)
    IN  OptionsRating(
            event.event_id[1],
            event.ticker,
            DateOfDay(day),
            strategy,
            breakdown,
            confidence,
            Some(dte),
            Some(IF delta < 0 THEN -delta ELSE delta),
            Some(max_risk),
            <<EventType[event.event_type],
              IF TruthyStr(event.pipeline_stage) THEN event.pipeline_stage[1] ELSE "N/A",
              SentimentTag[event.sentiment]>>,
            <<>>)

\* a score_event that falls back on the stored events for its history
score_event_reads_store(event, iv_rank, past_events, custom_weights, confidence_override) ==
    ScoreEventOn(today, event, iv_rank,
                 IF past_events = NONE
                 THEN Some(IF eventsFile.exists /\ eventsFile.json_ok
                           THEN MapSeq(DictToEvent, eventsFile.rows) ELSE <<>>)
                 ELSE past_events,
                 custom_weights, confidence_override)

\* score_event: the Rating it returns when it does not raise
score_event(event, iv_rank, past_events, custom_weights, confidence_override) ==
    ScoreEventOn(today, event, iv_rank, past_events, custom_weights,
                 confidence_override)

(***************************************************************************)
(* storage/event_store.py: the events collection                           *)
(***************************************************************************)
\* the backing file before the first save
AbsentFile == [exists |-> FALSE, json_ok |-> FALSE, rows |-> <<>>]

\* a backing file json.load cannot decode
CorruptFile == [exists |-> TRUE, json_ok |-> FALSE, rows |-> <<>>]

\* EventStore.load_events
load_events(f) ==
    IF ~f.exists THEN <<>>
    ELSE IF ~f.json_ok \/ \E i \in DOMAIN f.rows : ~EventDecodes(f.rows[i])
         THEN <<>>
         ELSE MapSeq(DictToEvent, f.rows)

\* EventStore.save_events: the file it leaves
save_events(events) ==
    [exists |-> TRUE, json_ok |-> TRUE, rows |-> MapSeq(EventToDict, events)]

\* next((i for i, e in enumerate(events) if e.event_id == event_id), None)
FirstIndex(events, event_id) ==
    LET hits == {i \in DOMAIN events : events[i].event_id = event_id} IN
    IF hits = {} THEN NONE
    ELSE Some(CHOOSE i \in hits : \A j \in hits : i <= j)

\* an insert that never looks for the key
save_event_append(f, event) ==
    save_events(Append(load_events(f), event))

\* EventStore.save_event: the file it leaves
save_event(f, event) ==
    LET events == load_events(f)
        idx    == FirstIndex(events, event.event_id)
    IN  IF idx /= NONE
        THEN save_events([events EXCEPT ![idx[1]] = event])
        ELSE save_events(Append(events, event))

\* EventStore.get_event
get_event(f, event_id) ==
    LET events == load_events(f)
        idx    == FirstIndex(events, event_id)
    IN  IF idx /= NONE THEN Some(events[idx[1]]) ELSE NONE

\* a delete that drops the first match only
delete_event_first(f, event_id) ==
    LET events == load_events(f)
        idx    == FirstIndex(events, event_id)
    IN  IF idx = NONE THEN [file |-> f, ret |-> FALSE]
        ELSE [file |-> save_events(SubSeq(events, 1, idx[1] - 1)
                                   \o SubSeq(events, idx[1] + 1, Len(events))),
              ret  |-> TRUE]

\* EventStore.delete_event: the file it leaves and what it returns
delete_event(f, event_id) ==
    LET events == load_events(f)
        Other(e) == e.event_id /= event_id
        new_events == FilterSeq(Other, events)
    IN  IF Len(new_events) = Len(events) THEN [file |-> f, ret |-> FALSE]
        ELSE [file |-> save_events(new_events), ret |-> TRUE]

(***************************************************************************)
(* storage/event_store.py: the ratings collection                          *)
(***************************************************************************)
\* _dict_to_rating raises (KeyError, ValueError) on these rows
RatingDecodes(d) ==
    /\ {"score_breakdown", "event_id", "ticker", "rating_date",
        "recommended_strategy"} \subseteq DOMAIN d
    /\ BreakdownKeys \subseteq DOMAIN d.score_breakdown
    /\ IsEnumValue(OptionsStrategy, d.recommended_strategy)
    /\ Len(d.rating_date) = 3

\* _dict_to_rating
DictToRating(d) ==
    LET bd == d.score_breakdown
        breakdown == [
            catalyst_quality    |-> bd.catalyst_quality,
            sentiment_alignment |-> bd.sentiment_alignment,
            market_context      |-> bd.market_context,
            iv_environment      |-> bd.iv_environment,
            historical_accuracy |-> bd.historical_accuracy,
            competitive_moat    |-> bd.competitive_moat,
            risk_reward         |-> bd.risk_reward]
    IN  OptionsRating(
            d.event_id,
            d.ticker,
            fromisoformat(d.rating_date),
            EnumOf(OptionsStrategy, d.recommended_strategy),
            breakdown,
            Get(d, "confidence_pct", 0),
            Get(d, "target_expiry_days", NONE),
            Get(d, "suggested_delta", NONE),
            Get(d, "max_risk_pct_port", NONE),
            Get(d, "notes", ""),
            Get(d, "analyst_flags", <<>>))

\* EventStore.load_ratings
load_ratings(f) ==
    IF ~f.exists THEN <<>>
    ELSE IF ~f.json_ok \/ \E i \in DOMAIN f.rows : ~RatingDecodes(f.rows[i])
         THEN <<>>
         ELSE MapSeq(DictToRating, f.rows)

\* EventStore.save_ratings: the file it leaves
save_ratings(ratings) ==
    [exists |-> TRUE, json_ok |-> TRUE, rows |-> MapSeq(RatingToDict, ratings)]

\* EventStore.save_rating: the file it leaves
save_rating(f, rating) ==
    LET ratings == load_ratings(f)
        idx     == FirstIndex(ratings, rating.event_id)
    IN  IF idx /= NONE
        THEN save_ratings([ratings EXCEPT ![idx[1]] = rating])
        ELSE save_ratings(Append(ratings, rating))

\* EventStore.ratings_by_event: {r.event_id: r for r in load_ratings()}
ratings_by_event(f) ==
    LET ratings == load_ratings(f)
        ids == {ratings[i].event_id : i \in DOMAIN ratings}
    IN  [id \in ids |->
            ratings[CHOOSE i \in DOMAIN ratings :
                        /\ ratings[i].event_id = id
                        /\ \A j \in DOMAIN ratings :
                              ratings[j].event_id = id => j <= i]]

(***************************************************************************)
(* engine/comparator.py.  Moves and their means are in ten-thousandths of  *)
(* a percent, the two percentages of compute_stats in hundredths.          *)
(***************************************************************************)
\* event.event_id or ""
IdOrEmpty(event_id) == IF event_id = NONE THEN "" ELSE event_id[1]

\* build_comparison; rating is None or an OptionsRating
build_comparison(event, rating) == [
    event_id        |-> IdOrEmpty(event.event_id),
    ticker          |-> event.ticker,
    event_type      |-> EventType[event.event_type],
    outcome         |-> EventOutcome[event.outcome],
    actual_move_pct |-> event.actual_move_pct,
    spy_move_pct    |-> event.spy_move_pct,
    xbi_move_pct    |-> event.xbi_move_pct,
    relative_to_spy |-> relative_move(event),
    relative_to_xbi |-> xbi_relative_move(event),
    iv_crush_pct    |-> event.iv_crush_pct,
    rating_grade    |-> IF rating /= NONE THEN Some(RatingGrade[rating[1].grade])
                        ELSE NONE,
    rating_score    |-> IF rating /= NONE THEN Some(rating[1].composite_score)
                        ELSE NONE]

\* batch_compare; ratings is None or a dict from event_id to OptionsRating
batch_compare(events, ratings) ==
    LET by_id == IF TruthyDict(ratings) THEN ratings[1] ELSE <<>>
        IsResolved(e) == e.outcome /= "PENDING" /\ e.actual_move_pct /= NONE
        Compare(e) ==
            build_comparison(e, IF IdOrEmpty(e.event_id) \in DOMAIN by_id
                                THEN Some(by_id[IdOrEmpty(e.event_id)]) ELSE NONE)
    IN  MapSeq(Compare, FilterSeq(IsResolved, events))

\* ReturnComparison.outperformed_market() is True
outperformed_market(c) == c.relative_to_spy /= NONE /\ c.relative_to_spy[1] > 0

\* ReturnComparison.outperformed_sector() is True
outperformed_sector(c) == c.relative_to_xbi /= NONE /\ c.relative_to_xbi[1] > 0

\* sum(values)
RECURSIVE SumSeq(_)
SumSeq(values) ==
    IF values = <<>> THEN 0 ELSE Head(values) + SumSeq(Tail(values))

\* a mean that counts None as zero
safe_avg_none_as_zero(values) ==
    LET ValueOf(v) == IF v = NONE THEN 0 ELSE v[1] IN
    IF values = <<>> THEN NONE
    ELSE Some(RoundHalfEven(SumSeq(MapSeq(ValueOf, values)), Len(values)))

\* _safe_avg; values is a list of optional numbers
safe_avg(values) ==
    LET IsPresent(v) == v /= NONE
        ValueOf(v) == v[1]
        filtered == MapSeq(ValueOf, FilterSeq(IsPresent, values))
    IN  IF filtered = <<>> THEN NONE
        ELSE Some(RoundHalfEven(SumSeq(filtered), Len(filtered)))

\* a positive rate taken over the events that are not pending
positive_rate_of_resolved(events_for_outcome) ==
    LET IsResolved(e) == e.outcome /= "PENDING"
        IsPositive(e) == e.outcome \in {"POSITIVE", "MIXED"}
        resolved == IF events_for_outcome = NONE THEN <<>>
                    ELSE FilterSeq(IsResolved, events_for_outcome[1])
    IN  IF resolved = <<>> THEN NONE
        ELSE Some(RoundHalfEven(Len(FilterSeq(IsPositive, resolved)) * 10000,
                                Len(resolved)))

\* compute_stats, lines 171-178: positive_rate
positive_rate(events_for_outcome) ==
    LET IsPositive(e) == e.outcome \in {"POSITIVE", "MIXED"} IN
    IF events_for_outcome = NONE \/ events_for_outcome[1] = <<>> THEN NONE
    ELSE Some(RoundHalfEven(
             Len(FilterSeq(IsPositive, events_for_outcome[1])) * 10000,
             Len(events_for_outcome[1])))

\* the fields of a ReturnComparison list, one list per field
FieldOf(comparisons, field) ==
    LET Pick(c) == c[field] IN MapSeq(Pick, comparisons)

\* BenchmarkStats of a non-empty comparison list, lines 168-191
StatsOf(comparisons, events_for_outcome) ==
    LET n == Len(comparisons) IN [
    n_events              |-> n,
    avg_actual_move       |-> safe_avg(FieldOf(comparisons, "actual_move_pct")),
    avg_spy_move          |-> safe_avg(FieldOf(comparisons, "spy_move_pct")),
    avg_xbi_move          |-> safe_avg(FieldOf(comparisons, "xbi_move_pct")),
    avg_alpha_vs_spy      |-> safe_avg(FieldOf(comparisons, "relative_to_spy")),
    avg_alpha_vs_xbi      |-> safe_avg(FieldOf(comparisons, "relative_to_xbi")),
    pct_outperform_spy    |->
        Some(RoundHalfEven(Len(FilterSeq(outperformed_market, comparisons)) * 10000, n)),
    pct_outperform_xbi    |->
        Some(RoundHalfEven(Len(FilterSeq(outperformed_sector, comparisons)) * 10000, n)),
    avg_iv_crush          |-> safe_avg(FieldOf(comparisons, "iv_crush_pct")),
    positive_outcome_rate |-> positive_rate(events_for_outcome)]

\* BenchmarkStats of the empty comparison list, lines 159-166
EmptyStats == [
    n_events              |-> 0,
    avg_actual_move       |-> NONE,
    avg_spy_move          |-> NONE,
    avg_xbi_move          |-> NONE,
    avg_alpha_vs_spy      |-> NONE,
    avg_alpha_vs_xbi      |-> NONE,
    pct_outperform_spy    |-> NONE,
    pct_outperform_xbi    |-> NONE,
    avg_iv_crush          |-> NONE,
    positive_outcome_rate |-> NONE]

\* a compute_stats that rates the full event set before it looks at the
\* comparison list
compute_stats_rate_first(comparisons, events_for_outcome) ==
    IF Len(comparisons) = 0
    THEN [EmptyStats EXCEPT !.positive_outcome_rate = positive_rate(events_for_outcome)]
    ELSE StatsOf(comparisons, events_for_outcome)

\* compute_stats
compute_stats(comparisons, events_for_outcome) ==
    IF Len(comparisons) = 0 THEN EmptyStats
    ELSE StatsOf(comparisons, events_for_outcome)

(***************************************************************************)
(* collectors/market_data.py.  The provider is yfinance: YF_AVAILABLE says *)
(* whether it is installed, and each yf.download either raises or returns  *)
(* a frame of closes (in cents for prices, in hundredths for ^VIX), which  *)
(* may be empty.  A call that raises is [raised |-> TRUE], one that        *)
(* returns v is [raised |-> FALSE, value |-> v].                           *)
(***************************************************************************)
Raised == [raised |-> TRUE]
Returned(v) == [raised |-> FALSE, value |-> v]

\* yf.download raises
DownloadRaises == [raises |-> TRUE, close |-> <<>>]

\* yf.download returns a frame with these closes
Frame(close) == [raises |-> FALSE, close |-> close]

\* fetch_price_return, in ten-thousandths of a percent; _assert_yfinance
\* stands outside the try
fetch_price_return(yf_available, download, lookback_days) ==
    IF ~yf_available THEN Raised
    ELSE IF download.raises THEN Returned(NONE)
    ELSE IF Len(download.close) < 2 THEN Returned(NONE)
    ELSE
      LET close  == download.close
          recent == IF Len(close) >= lookback_days
                    THEN SubSeq(close, Len(close) - lookback_days + 1, Len(close))
                    ELSE close
      IN  Returned(Some(RoundHalfEven(
              (recent[Len(recent)] - recent[1]) * 1000000, recent[1])))

\* fetch_vix_level, in hundredths
fetch_vix_level(yf_available, download) ==
    IF ~yf_available THEN Raised
    ELSE IF download.raises THEN Returned(NONE)
    ELSE IF download.close = <<>> THEN Returned(NONE)
    ELSE Returned(Some(download.close[Len(download.close)]))

\* classify_sector_trend
classify_sector_trend(spy_return, xbi_return, vix) ==
    IF spy_return = NONE THEN "neutral"
    ELSE
      LET s1 == IF spy_return[1] > 15000 THEN 2
                ELSE IF spy_return[1] > 0 THEN 1
                ELSE IF spy_return[1] < -15000 THEN -2
                ELSE IF spy_return[1] < 0 THEN -1
                ELSE 0
          s2 == IF xbi_return = NONE THEN 0
                ELSE IF xbi_return[1] > 20000 THEN 1
                ELSE IF xbi_return[1] < -20000 THEN -1
                ELSE 0
          s3 == IF vix = NONE THEN 0
                ELSE IF vix[1] < 1500 THEN 1
                ELSE IF vix[1] > 2500 THEN -1
                ELSE IF vix[1] > 3500 THEN -2
                ELSE 0
          bullish_score == s1 + s2 + s3
      IN  IF bullish_score >= 3 THEN "strong_risk_on"
          ELSE IF bullish_score >= 1 THEN "risk_on"
          ELSE IF bullish_score <= -3 THEN "strong_risk_off"
          ELSE IF bullish_score <= -1 THEN "risk_off"
          ELSE "neutral"

\* build_market_context; provider is [yf_available, TICKER, SPY, XBI, VIX],
\* what the provider does for each symbol during the call
build_market_context(provider, event_date, lookback_days) ==
    LET spy_ret == fetch_price_return(provider.yf_available, provider.SPY, lookback_days)
        xbi_ret == fetch_price_return(provider.yf_available, provider.XBI, lookback_days)
        vix_lvl == fetch_vix_level(provider.yf_available, provider.VIX)
    IN  IF spy_ret.raised \/ xbi_ret.raised \/ vix_lvl.raised THEN Raised
        ELSE Returned(MarketContext(
                 spy_ret.value, xbi_ret.value, vix_lvl.value,
                 Some(classify_sector_trend(spy_ret.value, xbi_ret.value,
                                            vix_lvl.value)),
                 Some(<<"Auto-generated context for", isoformat(event_date),
                        spy_ret.value, xbi_ret.value, vix_lvl.value>>)))

\* fetch_post_event_moves: three fetch_price_return with lookback_days=1
fetch_post_event_moves(provider, ticker, event_date) ==
    LET t_move   == fetch_price_return(provider.yf_available, provider.TICKER, 1)
        spy_move == fetch_price_return(provider.yf_available, provider.SPY, 1)
        xbi_move == fetch_price_return(provider.yf_available, provider.XBI, 1)
    IN  IF t_move.raised \/ spy_move.raised \/ xbi_move.raised THEN Raised
        ELSE Returned(<<t_move.value, spy_move.value, xbi_move.value>>)

(***************************************************************************)
(* collectors/catalyst_tracker.py: create_event and resolve_event          *)
(***************************************************************************)
\* str.upper, on the modelled tickers
upper(ticker) ==
    CASE ticker = "abcd" -> "ABCD"
      [] ticker = "Abcd" -> "ABCD"
      [] OTHER           -> ticker

\* f"{ticker.upper()}_{event_date.isoformat()}_{str(uuid.uuid4())[:8]}", on
\* the modelled ticker, date and uuid prefixes
FormatEventId(ticker, event_date, uuid8) ==
    CASE <<upper(ticker), isoformat(event_date), uuid8>>
             = <<"ABCD", <<2026, 3, 9>>, "0a1b2c3d">> -> "ABCD_2026-03-09_0a1b2c3d"
      [] <<upper(ticker), isoformat(event_date), uuid8>>
             = <<"ABCD", <<2026, 3, 9>>, "9f8e7d6c">> -> "ABCD_2026-03-09_9f8e7d6c"

\* a create_event that lets the provider's exception through
create_event_uncaught(ticker, company_name, event_type, event_date, description, sentiment, pipeline_stage, indication, primary_endpoint, competing_drugs, analyst_notes, auto_market_context, tags, uuid8, provider) ==
    IF auto_market_context /\ build_market_context(provider, event_date, 5).raised
    THEN Raised
    ELSE Returned([
        event_id         |-> Some(FormatEventId(ticker, event_date, uuid8)),
        ticker           |-> upper(ticker),
        company_name     |-> company_name,
        event_type       |-> event_type,
        event_date       |-> event_date,
        description      |-> description,
        sentiment        |-> sentiment,
        analyst_notes    |-> analyst_notes,
        pipeline_stage   |-> pipeline_stage,
        indication       |-> indication,
        primary_endpoint |-> primary_endpoint,
        competing_drugs  |-> IF competing_drugs = NONE THEN <<>> ELSE competing_drugs[1],
        market_context   |-> IF auto_market_context
                             THEN Some(build_market_context(provider, event_date, 5).value)
                             ELSE NONE,
        outcome          |-> "PENDING",
        actual_move_pct  |-> NONE,
        spy_move_pct     |-> NONE,
        xbi_move_pct     |-> NONE,
        iv_crush_pct     |-> NONE,
        outcome_notes    |-> "",
        tags             |-> IF tags = NONE THEN <<>> ELSE tags[1]])

\* create_event; uuid8 is the prefix of the uuid4 it draws, provider what
\* the market-data provider does during the call
create_event(ticker, company_name, event_type, event_date, description, sentiment, pipeline_stage, indication, primary_endpoint, competing_drugs, analyst_notes, auto_market_context, tags, uuid8, provider) ==
    LET built == build_market_context(provider, event_date, 5)
        market_ctx == IF auto_market_context /\ ~built.raised
                      THEN Some(built.value) ELSE NONE
    IN  Returned([
        event_id         |-> Some(FormatEventId(ticker, event_date, uuid8)),
        ticker           |-> upper(ticker),
        company_name     |-> company_name,
        event_type       |-> event_type,
        event_date       |-> event_date,
        description      |-> description,
        sentiment        |-> sentiment,
        analyst_notes    |-> analyst_notes,
        pipeline_stage   |-> pipeline_stage,
        indication       |-> indication,
        primary_endpoint |-> primary_endpoint,
        competing_drugs  |-> IF competing_drugs = NONE THEN <<>> ELSE competing_drugs[1],
        market_context   |-> market_ctx,
        outcome          |-> "PENDING",
        actual_move_pct  |-> NONE,
        spy_move_pct     |-> NONE,
        xbi_move_pct     |-> NONE,
        iv_crush_pct     |-> NONE,
        outcome_notes    |-> "",
        tags             |-> IF tags = NONE THEN <<>> ELSE tags[1]])

\* a resolve_event that lets the provider's exception through
resolve_event_uncaught(event, outcome, outcome_notes, auto_fetch_moves, provider) ==
    LET moves == fetch_post_event_moves(provider, event.ticker, event.event_date) IN
    IF auto_fetch_moves /\ moves.raised THEN Raised
    ELSE Returned(
        IF auto_fetch_moves
        THEN [event EXCEPT !.outcome = outcome, !.outcome_notes = outcome_notes,
                           !.actual_move_pct = moves.value[1],
                           !.spy_move_pct = moves.value[2],
                           !.xbi_move_pct = moves.value[3]]
        ELSE [event EXCEPT !.outcome = outcome, !.outcome_notes = outcome_notes])

\* resolve_event: the event object after the call
resolve_event(event, outcome, outcome_notes, auto_fetch_moves, provider) ==
    LET moves == fetch_post_event_moves(provider, event.ticker, event.event_date) IN
    Returned(
        IF auto_fetch_moves /\ ~moves.raised
        THEN [event EXCEPT !.outcome = outcome, !.outcome_notes = outcome_notes,
                           !.actual_move_pct = moves.value[1],
                           !.spy_move_pct = moves.value[2],
                           !.xbi_move_pct = moves.value[3]]
        ELSE [event EXCEPT !.outcome = outcome, !.outcome_notes = outcome_notes])

(***************************************************************************)
(* The events the modelled callers pass to the store                       *)
(***************************************************************************)
MaxWholesale == 2      \* longest list handed to save_events

EventDate == [year |-> 2026, month |-> 3, day |-> 9]

\* a fresh pending event: every optional field None, every list empty
BareEvent(id) == [
    event_id         |-> id,
    ticker           |-> "ABCD",
    company_name     |-> "Acme Bio",
    event_type       |-> "FDA_PDUFA",
    event_date       |-> EventDate,
    description      |-> "PDUFA decision",
    sentiment        |-> "NEUTRAL",
    analyst_notes    |-> "",
    pipeline_stage   |-> NONE,
    indication       |-> NONE,
    primary_endpoint |-> NONE,
    competing_drugs  |-> <<>>,
    market_context   |-> NONE,
    outcome          |-> "PENDING",
    actual_move_pct  |-> NONE,
    spy_move_pct     |-> NONE,
    xbi_move_pct     |-> NONE,
    iv_crush_pct     |-> NONE,
    outcome_notes    |-> "",
    tags             |-> <<>>]

\* a resolved event whose optional numbers are present and zero, with a
\* MarketContext whose fields are all None
ZeroEvent(id) == [BareEvent(id) EXCEPT
    !.sentiment        = "STRONG_BUY",
    !.pipeline_stage   = Some("PDUFA date"),
    !.indication       = Some(""),
    !.competing_drugs  = <<"rivalmab">>,
    !.market_context   = Some(MarketContext(NONE, NONE, NONE, NONE, NONE)),
    !.outcome          = "POSITIVE",
    !.actual_move_pct  = Some(0),
    !.spy_move_pct     = Some(0),
    !.iv_crush_pct     = Some(0),
    !.tags             = <<"oncology">>]

\* a resolved event with every field filled
FullEvent(id) == [ZeroEvent(id) EXCEPT
    !.event_type       = "EARNINGS",
    !.sentiment        = "SELL",
    !.primary_endpoint = Some("OS improvement >= 3mo"),
    !.market_context   = Some(MarketContext(Some(21500), Some(-31000),
                                            Some(1800), Some("risk_on"),
                                            Some("auto"))),
    !.outcome          = "NEGATIVE",
    !.actual_move_pct  = Some(-125000),
    !.spy_move_pct     = Some(4000),
    !.xbi_move_pct     = Some(-12000),
    !.iv_crush_pct     = Some(3500)]

EventId1 == Some("ABCD_2026-03-09_0a1b2c3d")
EventId2 == Some("ABCD_2026-03-09_9f8e7d6c")
EventIds == {EventId1, EventId2}

StoreEvents ==
    {BareEvent(id) : id \in EventIds \cup {NONE}}
    \cup {ZeroEvent(id) : id \in EventIds}
    \cup {FullEvent(id) : id \in EventIds}

\* the events of the lists handed to save_events: two records under one
\* event_id, one under another, one with no event_id
WholesaleEvents ==
    {BareEvent(EventId1), ZeroEvent(EventId1), FullEvent(EventId2), BareEvent(NONE)}

\* no store call has returned yet
NoCall == [op |-> "none", event |-> NONE, id |-> NONE, ret |-> NONE, n |-> 0,
           rating |-> NONE, ratings |-> <<>>]

\* store.save_events(events)
SaveEvents ==
    \E events \in SeqsUpTo(WholesaleEvents, MaxWholesale) :
        /\ eventsFile' = save_events(events)
        /\ last' = [NoCall EXCEPT !.op = "save_events"]
        /\ UNCHANGED <<ratingsFile, latest, today, cur, call, probe>>

\* store.save_event(event); n counts the consecutive calls with this event
SaveEvent ==
    \E event \in StoreEvents :
        /\ eventsFile' = save_event(eventsFile, event)
        /\ last' = [NoCall EXCEPT
                      !.op = "save_event",
                      !.event = Some(event),
                      !.n = IF last.op = "save_event" /\ last.event = Some(event)
                            THEN 2 ELSE 1]
        /\ UNCHANGED <<ratingsFile, latest, today, cur, call, probe>>

\* store.get_event(event_id), right after a save_event or on its own
GetEvent ==
    \E event_id \in EventIds \cup {NONE} :
        /\ last' = [NoCall EXCEPT
                      !.op = "get_event",
                      !.event = IF last.op = "save_event" THEN last.event ELSE NONE,
                      !.id = event_id,
                      !.ret = get_event(eventsFile, event_id)]
        /\ UNCHANGED <<eventsFile, ratingsFile, latest, today, cur, call, probe>>

\* the caller holds no Rating
NoRating == NONE

\* score_event has not been called
NoScoreCall == [op |-> "none", event |-> NONE, iv_rank |-> NONE,
                past_events |-> NONE, custom_weights |-> NONE,
                confidence_override |-> NONE, raised |-> FALSE,
                breakdown |-> NONE, event_after |-> NONE]

\* no pure function has been applied
NoProbe == [fn |-> "none", arg |-> NONE, ret |-> NONE]

\* no save_rating call has been made for any event_id
NoneSaved == [id \in {EventId1[1], EventId2[1]} |-> NONE]

Init ==
    /\ eventsFile \in {AbsentFile, CorruptFile}
    /\ ratingsFile = AbsentFile
    /\ last = NoCall
    /\ latest = NoneSaved
    /\ today = 1
    /\ cur = NoRating
    /\ call = NoScoreCall
    /\ probe = NoProbe

\* store.delete_event(event_id)
DeleteEvent ==
    \E event_id \in EventIds \cup {NONE} :
        /\ eventsFile' = delete_event(eventsFile, event_id).file
        /\ last' = [NoCall EXCEPT
                      !.op = "delete_event",
                      !.id = event_id,
                      !.ret = Some(delete_event(eventsFile, event_id).ret)]
        /\ UNCHANGED <<ratingsFile, latest, today, cur, call, probe>>

Next == SaveEvents \/ SaveEvent \/ GetEvent \/ DeleteEvent

Spec == Init /\ [][Next]_vars

(***************************************************************************)
(* Claims about the events collection, checked under Spec                  *)
(***************************************************************************)
\* the rows of the persisted event collection stored under event_id
RowsWithId(event_id) ==
    {i \in DOMAIN eventsFile.rows : eventsFile.rows[i].event_id = event_id}

\* C1: after save_event(e) returns, the persisted event collection holds
\* exactly one record whose event_id equals e.event_id, whatever collection
\* was persisted before the call.
C1_OneRecordPerKey ==
    last.op = "save_event" =>
        Cardinality(RowsWithId(last.event[1].event_id)) = 1

\* C2: a second save_event(e) with the same unchanged event leaves the
\* persisted event collection equal to the collection after the first call.
C2_IdempotentUpsert ==
    [][(last'.op = "save_event" /\ last'.n = 2) => eventsFile' = eventsFile]_vars

\* a second save_event(e) has returned, on a collection that holds two
\* records under e.event_id and a record under another event_id
C2_Witness ==
    /\ last.op = "save_event"
    /\ last.n = 2
    /\ Cardinality(RowsWithId(last.event[1].event_id)) = 2
    /\ Len(eventsFile.rows) = 3

\* C3: for every event e with a non-null event_id, save_event(e) followed
\* by get_event(e.event_id) returns a record equal to e in every field.
C3_EventRoundTrip ==
    (/\ last.op = "get_event"
     /\ last.event /= NONE
     /\ last.event[1].event_id /= NONE
     /\ last.id = last.event[1].event_id)
    => last.ret = last.event

\* get_event has returned, after save_event, an event whose optional numbers
\* are zero or None, with a MarketContext of None fields
C3_Witness ==
    /\ last.op = "get_event"
    /\ last.event = Some(ZeroEvent(EventId1))
    /\ last.id = EventId1
    /\ last.ret = Some(ZeroEvent(EventId1))
    /\ last.ret[1].xbi_move_pct = NONE
    /\ last.ret[1].actual_move_pct = Some(0)

\* the rows of a file that are not stored under event_id, in order
RowsWithout(f, event_id) ==
    LET Other(row) == row.event_id /= event_id IN FilterSeq(Other, f.rows)

\* C20: delete_event(id) returns true exactly when the persisted collection
\* held a record with that event_id; afterwards no record with that
\* event_id remains and get_event(id) returns None; the records with other
\* event_ids are kept unchanged and in order, and when nothing matched the
\* file is not rewritten.
C20_DeleteByKey ==
    [][last'.op = "delete_event" =>
          LET matched == \E i \in DOMAIN eventsFile.rows :
                             eventsFile.rows[i].event_id = last'.id
          IN  /\ last'.ret = Some(matched)
              /\ \A i \in DOMAIN eventsFile'.rows :
                     eventsFile'.rows[i].event_id /= last'.id
              /\ get_event(eventsFile', last'.id) = NONE
              /\ RowsWithout(eventsFile', last'.id) = RowsWithout(eventsFile, last'.id)
              /\ ~matched => eventsFile' = eventsFile]_vars

\* delete_event has returned true and left the one record stored under
\* another event_id
C20_Witness ==
    /\ last.op = "delete_event"
    /\ last.id = EventId1
    /\ last.ret = Some(TRUE)
    /\ Len(eventsFile.rows) = 1
    /\ eventsFile.rows[1] = EventToDict(FullEvent(EventId2))

\* delete_event has returned false on a file that does not decode, and
\* left it as it was
C20_WitnessNoMatch ==
    /\ last.op = "delete_event"
    /\ last.ret = Some(FALSE)
    /\ eventsFile = CorruptFile

(***************************************************************************)
(* SpecRatings: the ratings collection, filled from an empty store by      *)
(* score_event, refresh_score and save_rating                              *)
(***************************************************************************)
\* a mapping that puts all the weight on catalyst_quality
CatalystOnly == [catalyst_quality |-> 100]

\* the events scored for the ratings store
RatedEvents == {ZeroEvent(EventId1), FullEvent(EventId2), BareEvent(EventId2)}

\* the custom weight mappings passed with them
RatedWeights == {NONE, Some(CatalystOnly)}

\* cur = score_event(event, custom_weights=w)
ScoreForStore ==
    \E event \in RatedEvents, w \in RatedWeights :
        /\ cur' = Some(score_event(event, NONE, NONE, w, NONE))
        /\ call' = [NoScoreCall EXCEPT !.op = "score_event",
                                       !.event = Some(event),
                                       !.custom_weights = w]
        /\ UNCHANGED <<eventsFile, ratingsFile, last, latest, today, probe>>

\* cur.refresh_score(w)
RefreshScore ==
    \E w \in RatedWeights :
        /\ cur /= NoRating
        /\ cur' = Some(refresh_score(cur[1], w))
        /\ call' = [call EXCEPT !.op = "refresh_score", !.custom_weights = w]
        /\ UNCHANGED <<eventsFile, ratingsFile, last, latest, today, probe>>

\* store.save_rating(cur)
SaveRating ==
    /\ cur /= NoRating
    /\ ratingsFile' = save_rating(ratingsFile, cur[1])
    /\ last' = [NoCall EXCEPT !.op = "save_rating", !.rating = cur]
    /\ latest' = [latest EXCEPT ![cur[1].event_id] = cur]
    /\ UNCHANGED <<eventsFile, today, cur, call, probe>>

\* store.load_ratings(), right after a save_rating or on its own
LoadRatings ==
    /\ last' = [NoCall EXCEPT
                  !.op = "load_ratings",
                  !.rating = IF last.op = "save_rating" THEN last.rating ELSE NONE,
                  !.ratings = load_ratings(ratingsFile)]
    /\ UNCHANGED <<eventsFile, ratingsFile, latest, today, cur, call, probe>>

InitRatings ==
    /\ eventsFile = AbsentFile
    /\ ratingsFile \in {AbsentFile, save_ratings(<<>>)}
    /\ last = NoCall
    /\ latest = NoneSaved
    /\ today = 1
    /\ cur = NoRating
    /\ call = NoScoreCall
    /\ probe = NoProbe

NextRatings == ScoreForStore \/ RefreshScore \/ SaveRating \/ LoadRatings

SpecRatings == InitRatings /\ [][NextRatings]_vars

\* the rows of the persisted rating collection stored under event_id
RatingRowsWithId(event_id) ==
    {i \in DOMAIN ratingsFile.rows : ratingsFile.rows[i].event_id = event_id}

\* C4: after any sequence of save_rating calls from an empty ratings store,
\* the store holds at most one rating per event_id, and the rating stored
\* for an event_id is the one passed to the most recent save_rating call
\* for it; a call for another event_id does not change it.
C4_LastWriteWins ==
    \A id \in DOMAIN latest :
        /\ Cardinality(RatingRowsWithId(id)) <= 1
        /\ latest[id] = NONE => RatingRowsWithId(id) = {}
        /\ latest[id] /= NONE =>
              \E i \in RatingRowsWithId(id) :
                  ratingsFile.rows[i] = RatingToDict(latest[id][1])

\* C5: for every Rating r the API can produce (returned by score_event, or
\* later updated with refresh_score(weights)), save_rating(r) followed by
\* load_ratings returns for r.event_id a rating equal to r in every field.
C5_RatingRoundTrip ==
    (last.op = "load_ratings" /\ last.rating /= NONE) =>
        /\ \E i \in DOMAIN last.ratings :
              last.ratings[i].event_id = last.rating[1].event_id
        /\ \A i \in DOMAIN last.ratings :
              last.ratings[i].event_id = last.rating[1].event_id
                  => last.ratings[i] = last.rating[1]

(***************************************************************************)
(* SpecScore: score_event called by a caller while the clock and the       *)
(* event store move on                                                     *)
(***************************************************************************)
MaxDay == 2      \* the last day date.today() reaches

\* the optional inputs of the modelled score_event calls
IvRanks == {NONE, Some(5500)}
Histories == {NONE, Some(<<ZeroEvent(EventId2), FullEvent(EventId2)>>)}
WeightMappings == {NONE, Some(<<>>), Some(CatalystOnly)}
Overrides == {NONE, Some(0)}

\* the resolved event another caller stores meanwhile
StoredMeanwhile == ZeroEvent(EventId2)

\* a pending fda_pdufa event at stage "PDUFA date" rated strong_buy, with no
\* competing drugs, no primary endpoint and no market context
ExampleEvent == [BareEvent(EventId1) EXCEPT
    !.sentiment      = "STRONG_BUY",
    !.pipeline_stage = Some("PDUFA date")]

\* the events passed to score_event
ScoredEvents == StoreEvents \cup {ExampleEvent}

\* cur = score_event(event, iv_rank, past_events, custom_weights,
\* confidence_override), or ValueError; call.breakdown is the sub-scores
\* computed by the time the call ends, call.event_after the Event object
\* after it (score_event assigns to none of its fields)
ScoreEvent ==
    \E event \in ScoredEvents, iv_rank \in IvRanks, past_events \in Histories,
       custom_weights \in WeightMappings, confidence_override \in Overrides :
        /\ call' = [op |-> "score_event", event |-> Some(event),
                    iv_rank |-> iv_rank, past_events |-> past_events,
                    custom_weights |-> custom_weights,
                    confidence_override |-> confidence_override,
                    raised |-> ScoreEventRaises(event),
                    breakdown |-> IF ScoreEventRaises(event) THEN NONE
                                  ELSE Some(ScoreBreakdownOf(event, iv_rank,
                                                             past_events)),
                    event_after |-> Some(event)]
        /\ cur' = IF ScoreEventRaises(event) THEN NoRating
                  ELSE Some(score_event(event, iv_rank, past_events,
                                        custom_weights, confidence_override))
        /\ probe' = NoProbe
        /\ UNCHANGED <<eventsFile, ratingsFile, last, latest, today>>

\* a second score_event call with the arguments of the first
ScoreAgain ==
    /\ call.op = "score_event"
    /\ ~call.raised
    /\ probe' = [fn |-> "score_event", arg |-> NONE,
                 ret |-> Some(score_event(call.event[1], call.iv_rank,
                                          call.past_events, call.custom_weights,
                                          call.confidence_override))]
    /\ UNCHANGED <<eventsFile, ratingsFile, last, latest, today, cur, call>>

\* date.today() moves to the next day
NextDay ==
    /\ today < MaxDay
    /\ today' = today + 1
    /\ UNCHANGED <<eventsFile, ratingsFile, last, latest, cur, call, probe>>

\* store.save_event(StoredMeanwhile)
StoreMeanwhile ==
    /\ eventsFile' = save_event(eventsFile, StoredMeanwhile)
    /\ last' = [NoCall EXCEPT !.op = "save_event", !.event = Some(StoredMeanwhile),
                              !.n = 1]
    /\ UNCHANGED <<ratingsFile, latest, today, cur, call, probe>>

NextScore == ScoreEvent \/ ScoreAgain \/ NextDay \/ StoreMeanwhile

SpecScore == Init /\ [][NextScore]_vars

\* C6: the composite_score of the Rating score_event returns is the
\* weight-dot-product of its sub-scores under the weights in force for the
\* call (custom_weights when supplied, the defaults otherwise), clamped and
\* rounded, and its grade is score_to_grade of that composite.
C6_CompositeUnderWeightsInForce ==
    (call.op = "score_event" /\ cur /= NoRating) =>
        /\ cur[1].composite_score =
              weighted_total(cur[1].score_breakdown, call.custom_weights)
        /\ cur[1].grade = score_to_grade(cur[1].composite_score)

\* C7: the max_risk_pct_port of the Rating score_event returns is the table
\* value of that Rating's own grade.
C7_MaxRiskOfOwnGrade ==
    (call.op = "score_event" /\ cur /= NoRating) =>
        cur[1].max_risk_pct_port = Some(grade_risk[cur[1].grade])

\* two Ratings equal in every field except possibly rating_date
EqualButDate(r1, r2) ==
    [r1 EXCEPT !.rating_date = r2.rating_date] = r2

\* C10: two score_event calls with equal Events and equal optional inputs
\* return Ratings equal in every field except possibly rating_date,
\* whatever the event store holds and whatever was scored before.
C10_Deterministic ==
    (probe.fn = "score_event" /\ cur /= NoRating) =>
        EqualButDate(probe.ret[1], cur[1])

\* the second call has returned on a later day, with no history passed and
\* a resolved event of the same ticker and type stored in between
C10_Witness ==
    /\ probe.fn = "score_event"
    /\ cur /= NoRating
    /\ call.past_events = NONE
    /\ call.event[1].event_type = StoredMeanwhile.event_type
    /\ Len(eventsFile.rows) = 1
    /\ probe.ret[1].rating_date /= cur[1].rating_date
    /\ EqualButDate(probe.ret[1], cur[1])

\* C11: score_event on an Event whose event_id is unset raises ValueError
\* before any sub-score is computed, returns no Rating and leaves the Event
\* unchanged; with a set event_id it does not raise, whether or not iv_rank,
\* history or market context are given.
C11_RaisesOnUnsetId ==
    call.op = "score_event" =>
        /\ call.event[1].event_id = NONE =>
              /\ call.raised
              /\ call.breakdown = NONE
              /\ cur = NoRating
              /\ call.event_after = call.event
        /\ call.event[1].event_id /= NONE =>
              /\ ~call.raised
              /\ cur /= NoRating

\* score_event has raised for an event with no event_id
C11_Witness ==
    /\ call.op = "score_event"
    /\ call.event[1].event_id = NONE
    /\ call.raised
    /\ cur = NoRating

\* score_event has returned a Rating for an event with an event_id and no
\* iv_rank, no history and no market context
C11_WitnessReturned ==
    /\ call.op = "score_event"
    /\ call.event[1].event_id /= NONE
    /\ call.iv_rank = NONE
    /\ call.past_events = NONE
    /\ call.event[1].market_context = NONE
    /\ ~call.raised
    /\ cur /= NoRating
    /\ cur[1].score_breakdown = call.breakdown[1]

\* the score_event call of the worked example: fda_pdufa at stage "PDUFA
\* date", strong_buy, no competing drugs, iv_rank 55, default weights, no
\* primary endpoint, no market context, no history
IsWorkedExample ==
    /\ call.op = "score_event"
    /\ cur /= NoRating
    /\ call.event[1].event_type = "FDA_PDUFA"
    /\ call.event[1].pipeline_stage = Some("PDUFA date")
    /\ call.event[1].sentiment = "STRONG_BUY"
    /\ call.event[1].competing_drugs = <<>>
    /\ call.event[1].primary_endpoint = NONE
    /\ call.event[1].market_context = NONE
    /\ call.iv_rank = Some(5500)
    /\ call.custom_weights = NONE
    /\ call.past_events = NONE

\* C13 as stated: the worked example gets catalyst quality 98.25, a
\* composite score >= 80 (grade A or A+) and bull call spread.
C13_WorkedExampleAsStated ==
    IsWorkedExample =>
        /\ cur[1].score_breakdown.catalyst_quality = 9825
        /\ cur[1].composite_score >= 8000
        /\ cur[1].grade \in {"A", "A_PLUS"}
        /\ cur[1].recommended_strategy = "BULL_CALL_SPREAD"

\* C13, amended: the worked example gets catalyst quality 98.25, the
\* sub-scores 90 (sentiment), 50 (market), 80 (IV), 50 (history), 85 (moat)
\* and 85 (risk/reward), hence the composite score 79.56 under the default
\* weights, grade B+, and bull call spread.
C13_WorkedExample ==
    IsWorkedExample =>
        /\ cur[1].score_breakdown = [catalyst_quality    |-> 9825,
                                     sentiment_alignment |-> 9000,
                                     market_context      |-> 5000,
                                     iv_environment      |-> 8000,
                                     historical_accuracy |-> 5000,
                                     competitive_moat    |-> 8500,
                                     risk_reward         |-> 8500]
        /\ cur[1].composite_score = 7956
        /\ cur[1].grade = "B_PLUS"
        /\ cur[1].recommended_strategy = "BULL_CALL_SPREAD"

\* score_event has returned the Rating of the worked example
C13_Witness ==
    /\ IsWorkedExample
    /\ call.event = Some(ExampleEvent)
    /\ cur[1].composite_score = 7956

(***************************************************************************)
(* SpecCli: the add and resolve commands of cli.py on one store, with a    *)
(* market-data provider that may fail during any command                   *)
(***************************************************************************)
\* yfinance is not installed
ProviderMissing == [yf_available |-> FALSE, TICKER |-> DownloadRaises,
                    SPY |-> DownloadRaises, XBI |-> DownloadRaises,
                    VIX |-> DownloadRaises]

\* every yf.download raises
ProviderRaises == [ProviderMissing EXCEPT !.yf_available = TRUE]

\* every yf.download returns an empty frame
ProviderEmpty == [yf_available |-> TRUE, TICKER |-> Frame(<<>>),
                  SPY |-> Frame(<<>>), XBI |-> Frame(<<>>), VIX |-> Frame(<<>>)]

\* every yf.download returns closes
ProviderData == [yf_available |-> TRUE, TICKER |-> Frame(<<1000, 875>>),
                 SPY |-> Frame(<<50000, 51075>>), XBI |-> Frame(<<9000, 8721>>),
                 VIX |-> Frame(<<1410, 1400>>)]

\* closes for the benchmarks only
ProviderNoTicker == [ProviderData EXCEPT !.TICKER = Frame(<<>>)]

Providers == {ProviderMissing, ProviderRaises, ProviderEmpty, ProviderData,
              ProviderNoTicker}

\* the provider raises, or returns no data, for every symbol
ProviderFails(provider) ==
    \/ ~provider.yf_available
    \/ \A sym \in {"TICKER", "SPY", "XBI", "VIX"} :
          provider[sym].raises \/ provider[sym].close = <<>>

\* the prefix of the uuid4 create_event draws: a second add meets the id of
\* the first
Uuid8s == {"0a1b2c3d"}

\* an event another session has stored
StoredBefore == FullEvent(EventId2)

\* an event_id that is not in the store
UnknownId == Some("ABCD_2026-03-09_ffffffff")

\* the event ids passed to the commands
CommandIds == {EventId1, UnknownId}

\* the parsed arguments of the add command
AddArgs == {[ticker |-> "abcd", company |-> "Acme Bio", type |-> "fda_pdufa",
             date |-> <<2026, 3, 9>>, desc |-> "PDUFA decision",
             sentiment |-> "neutral", stage |-> NONE, indication |-> NONE,
             endpoint |-> NONE, competing |-> NONE, notes |-> NONE,
             tags |-> NONE, no_market |-> no_market] : no_market \in BOOLEAN}

\* the arguments of the resolve command: --outcome excludes pending
ResolveOutcomes == {"positive", "withdrawn"}
ResolveOverrides == {[move |-> NONE, iv_crush |-> NONE],
                     [move |-> Some(-125000), iv_crush |-> Some(3500)]}
ResolveFetches ==
    {[no_fetch |-> TRUE, provider |-> ProviderMissing]}
    \cup {[no_fetch |-> FALSE, provider |-> provider] : provider \in Providers}

\* cmd_add: create_event, then store.save_event
CmdAdd ==
    \E args \in AddArgs, uuid8 \in Uuid8s, provider \in Providers :
        LET created == create_event(
                args.ticker, args.company, EnumOf(EventType, args.type),
                fromisoformat(args.date), args.desc,
                EnumOf(SentimentTag, args.sentiment), args.stage,
                args.indication, args.endpoint,
                Some(IF args.competing /= NONE THEN args.competing[1] ELSE <<>>),
                IF args.notes /= NONE THEN args.notes[1] ELSE "",
                ~args.no_market,
                Some(IF args.tags /= NONE THEN args.tags[1] ELSE <<>>),
                uuid8, provider)
        IN  /\ call' = [op |-> "cmd_add", args |-> args, provider |-> provider,
                        created |-> created]
            /\ IF created.raised
               THEN UNCHANGED <<eventsFile, last>>
               ELSE /\ eventsFile' = save_event(eventsFile, created.value)
                    /\ last' = [NoCall EXCEPT !.op = "save_event",
                                              !.event = Some(created.value),
                                              !.n = 1]
            /\ UNCHANGED <<ratingsFile, latest, today, cur, probe>>

\* cmd_resolve: store.get_event, resolve_event, the --move and --iv-crush
\* overrides, then store.save_event; sys.exit(1) when the event is not found
CmdResolve ==
    \E event_id \in CommandIds, outcome \in ResolveOutcomes,
       override \in ResolveOverrides, fetch \in ResolveFetches :
        LET move     == override.move
            iv_crush == override.iv_crush
            no_fetch == fetch.no_fetch
            provider == fetch.provider
            found    == get_event(eventsFile, event_id)
            resolved == resolve_event(found[1], EnumOf(EventOutcome, outcome),
                                      "", ~no_fetch, provider)
            moved    == IF move /= NONE
                        THEN [resolved.value EXCEPT !.actual_move_pct = move]
                        ELSE resolved.value
            event    == IF iv_crush /= NONE
                        THEN [moved EXCEPT !.iv_crush_pct = iv_crush]
                        ELSE moved
        IN  /\ call' = [op |-> "cmd_resolve", event_id |-> event_id,
                        outcome |-> outcome, move |-> move,
                        iv_crush |-> iv_crush, no_fetch |-> no_fetch,
                        provider |-> provider, found |-> found,
                        resolved |-> IF found = NONE THEN NONE ELSE Some(resolved)]
            /\ IF found = NONE \/ resolved.raised
               THEN UNCHANGED <<eventsFile, last>>
               ELSE /\ eventsFile' = save_event(eventsFile, event)
                    /\ last' = [NoCall EXCEPT !.op = "save_event",
                                              !.event = Some(event), !.n = 1]
            /\ UNCHANGED <<ratingsFile, latest, today, cur, probe>>

InitCli ==
    /\ eventsFile \in {AbsentFile, CorruptFile, save_events(<<StoredBefore>>)}
    /\ ratingsFile = AbsentFile
    /\ last = NoCall
    /\ latest = NoneSaved
    /\ today = 1
    /\ cur = NoRating
    /\ call = NoScoreCall
    /\ probe = NoProbe

NextCli == CmdAdd \/ CmdResolve

SpecCli == InitCli /\ [][NextCli]_vars

\* C14: resolving a stored pending Event with auto_fetch_moves=true while
\* the provider raises or returns no data does not raise; the Event
\* resolve_event returns has actual_move_pct, spy_move_pct and xbi_move_pct
\* None and the requested outcome, and after the resolve command get_event
\* returns the Event with that outcome.
C14_ResolveWithFailingProvider ==
    (/\ call.op = "cmd_resolve"
     /\ call.found /= NONE
     /\ call.found[1].outcome = "PENDING"
     /\ ~call.no_fetch
     /\ ProviderFails(call.provider))
    => /\ ~call.resolved[1].raised
       /\ call.resolved[1].value.actual_move_pct = NONE
       /\ call.resolved[1].value.spy_move_pct = NONE
       /\ call.resolved[1].value.xbi_move_pct = NONE
       /\ call.resolved[1].value.outcome = EnumOf(EventOutcome, call.outcome)
       /\ get_event(eventsFile, call.event_id) /= NONE
       /\ get_event(eventsFile, call.event_id)[1].outcome =
              EnumOf(EventOutcome, call.outcome)
       /\ get_event(eventsFile, call.event_id)[1].spy_move_pct = NONE
       /\ get_event(eventsFile, call.event_id)[1].xbi_move_pct = NONE
       /\ get_event(eventsFile, call.event_id)[1].actual_move_pct = call.move

\* the resolve command has resolved a stored pending event, the second of
\* two, while yfinance was missing
C14_Witness ==
    /\ call.op = "cmd_resolve"
    /\ call.found /= NONE
    /\ call.found[1].outcome = "PENDING"
    /\ ~call.no_fetch
    /\ ~call.provider.yf_available
    /\ call.move = NONE
    /\ Len(eventsFile.rows) = 2
    /\ eventsFile.rows[2].event_id = call.event_id
    /\ eventsFile.rows[2].outcome = "withdrawn"
    /\ eventsFile.rows[2].actual_move_pct = NONE

\* the resolve command has done the same while every download returned an
\* empty frame
C14_WitnessNoData ==
    /\ call.op = "cmd_resolve"
    /\ call.found /= NONE
    /\ call.found[1].outcome = "PENDING"
    /\ ~call.no_fetch
    /\ call.provider = ProviderEmpty
    /\ get_event(eventsFile, call.event_id)[1].outcome = "POSITIVE"

\* C15: create_event never raises because of the provider; when the
\* context fetch raises it returns an Event with a non-null event_id, the
\* upper-cased ticker, outcome pending, every resolution field None and no
\* market context.
C15_CreateWithFailingProvider ==
    call.op = "cmd_add" =>
        /\ ~call.created.raised
        /\ (/\ ~call.args.no_market
            /\ build_market_context(call.provider,
                                     fromisoformat(call.args.date), 5).raised)
           => /\ call.created.value.event_id /= NONE
              /\ call.created.value.ticker = "ABCD"
              /\ call.created.value.outcome = "PENDING"
              /\ call.created.value.actual_move_pct = NONE
              /\ call.created.value.spy_move_pct = NONE
              /\ call.created.value.xbi_move_pct = NONE
              /\ call.created.value.iv_crush_pct = NONE
              /\ call.created.value.market_context = NONE

\* the add command has stored an event created while the context fetch
\* raised
C15_Witness ==
    /\ call.op = "cmd_add"
    /\ call.args.ticker = "abcd"
    /\ ~call.args.no_market
    /\ ~call.provider.yf_available
    /\ ~call.created.raised
    /\ call.created.value.market_context = NONE
    /\ get_event(eventsFile, call.created.value.event_id) = Some(call.created.value)

(***************************************************************************)
(* SpecGrade: score_to_grade applied to every pair of a score of [0, 100]  *)
(* in hundredths and a band edge                                           *)
(***************************************************************************)
ScoreMax == 10000      \* 100.00, the upper clamp of weighted_total

\* the scores on either side of each threshold
BandEdges == {0, 2999, 3000, 3001, 4999, 5000, 5001, 5999, 6000, 6001,
              6999, 7000, 7001, 7999, 8000, 8001, 8999, 9000, 9001, ScoreMax}

InitGrade ==
    /\ eventsFile = AbsentFile
    /\ ratingsFile = AbsentFile
    /\ last = NoCall
    /\ latest = NoneSaved
    /\ today = 1
    /\ cur = NoRating
    /\ call = NoScoreCall
    /\ probe \in {[fn |-> "score_to_grade", arg |-> <<a, b>>, ret |-> NONE] :
                    a \in 0..ScoreMax, b \in BandEdges}

\* probe.ret = (score_to_grade(a), score_to_grade(b))
ApplyGrade ==
    /\ probe.fn = "score_to_grade"
    /\ probe.ret = NONE
    /\ probe' = [probe EXCEPT !.ret = <<score_to_grade(probe.arg[1]),
                                         score_to_grade(probe.arg[2])>>]
    /\ UNCHANGED <<eventsFile, ratingsFile, last, latest, today, cur, call>>

SpecGrade == InitGrade /\ [][ApplyGrade]_vars

\* the grades from worst to best
GradeRank == [F |-> 0, D |-> 1, C |-> 2, B |-> 3, B_PLUS |-> 4, A |-> 5, A_PLUS |-> 6]

\* C8: score_to_grade maps every score in [0,100] to the grade of its band
\* (>=90 A+, >=80 A, >=70 B+, >=60 B, >=50 C, >=30 D, else F), a boundary
\* value to the higher band, and a higher score never to a worse grade.
C8_GradeBands ==
    (probe.fn = "score_to_grade" /\ probe.ret /= NONE) =>
        LET a == probe.arg[1]
            b == probe.arg[2]
            g == probe.ret[1]
        IN  /\ g \in DOMAIN RatingGrade
            /\ g = "A_PLUS" <=> a \in 9000..ScoreMax
            /\ g = "A"      <=> a \in 8000..8999
            /\ g = "B_PLUS" <=> a \in 7000..7999
            /\ g = "B"      <=> a \in 6000..6999
            /\ g = "C"      <=> a \in 5000..5999
            /\ g = "D"      <=> a \in 3000..4999
            /\ g = "F"      <=> a \in 0..2999
            /\ a <= b => GradeRank[g] <= GradeRank[probe.ret[2]]

\* score_to_grade has been applied to the boundary 90.00 and to 89.99
C8_Witness ==
    /\ probe.fn = "score_to_grade"
    /\ probe.arg = <<8999, 9000>>
    /\ probe.ret = <<"A", "A_PLUS">>

(***************************************************************************)
(* SpecStrategy: recommend_strategy applied to an event of every type and  *)
(* every sentiment score of [0, 100] in hundredths                         *)
(***************************************************************************)
\* an event of the given type
EventOfType(event_type) == [BareEvent(EventId1) EXCEPT !.event_type = event_type]

InitStrategy ==
    /\ eventsFile = AbsentFile
    /\ ratingsFile = AbsentFile
    /\ last = NoCall
    /\ latest = NoneSaved
    /\ today = 1
    /\ cur = NoRating
    /\ call = NoScoreCall
    /\ probe \in {[fn |-> "recommend_strategy", arg |-> <<EventOfType(t), s>>,
                    ret |-> NONE] :
                    t \in DOMAIN EventType, s \in 0..ScoreMax}

\* probe.ret = recommend_strategy(event, sentiment_score)
ApplyStrategy ==
    /\ probe.fn = "recommend_strategy"
    /\ probe.ret = NONE
    /\ probe' = [probe EXCEPT
                   !.ret = Some(recommend_strategy(probe.arg[1], probe.arg[2]))]
    /\ UNCHANGED <<eventsFile, ratingsFile, last, latest, today, cur, call>>

SpecStrategy == InitStrategy /\ [][ApplyStrategy]_vars

\* C12: recommend_strategy equals the decision table: fda_pdufa, fda_adcom
\* and clinical_readout give bull call spread at a score >= 70, bear put
\* spread at a score <= 30 and long straddle between; earnings the same with
\* iron condor between; macro_release always calendar spread; partnership
\* long call at a score >= 65 and bull call spread below; every other type
\* long straddle.
C12_StrategyTable ==
    (probe.fn = "recommend_strategy" /\ probe.ret /= NONE) =>
        LET t == EventType[probe.arg[1].event_type]
            s == probe.arg[2]
            r == OptionsStrategy[probe.ret[1]]
        IN  /\ t \in {"fda_pdufa", "fda_adcom", "clinical_readout"} =>
                  /\ s >= 7000 => r = "bull_call_spread"
                  /\ s <= 3000 => r = "bear_put_spread"
                  /\ (3000 < s /\ s < 7000) => r = "long_straddle"
            /\ t = "earnings" =>
                  /\ s >= 7000 => r = "bull_call_spread"
                  /\ s <= 3000 => r = "bear_put_spread"
                  /\ (3000 < s /\ s < 7000) => r = "iron_condor"
            /\ t = "macro_release" => r = "calendar_spread"
            /\ t = "partnership" =>
                  /\ s >= 6500 => r = "long_call"
                  /\ s < 6500 => r = "bull_call_spread"
            /\ t \notin {"fda_pdufa", "fda_adcom", "clinical_readout", "earnings",
                         "macro_release", "partnership"} => r = "long_straddle"

\* recommend_strategy has returned long call for a partnership at the
\* threshold score 65.00
C12_Witness ==
    /\ probe.fn = "recommend_strategy"
    /\ probe.arg[1].event_type = "PARTNERSHIP"
    /\ probe.arg[2] = 6500
    /\ probe.ret = Some("LONG_CALL")

(***************************************************************************)
(* SpecTotal: weighted_total applied to breakdowns of [0, 100] sub-scores  *)
(* under weight mappings that sum to 1.0                                   *)
(***************************************************************************)
\* sum(w.values())
RECURSIVE SumOver(_, _)
SumOver(w, keys) ==
    IF keys = {} THEN 0
    ELSE LET k == CHOOSE x \in keys : TRUE IN w[k] + SumOver(w, keys \ {k})

SumOfWeights(w) == SumOver(w, DOMAIN w)

\* mappings with missing and with negative entries, all summing to 1.0
UnitWeightMappings == {
    NONE,
    Some(default_weights),
    Some(CatalystOnly),
    Some([catalyst_quality |-> 200, sentiment_alignment |-> -100]),
    Some([risk_reward |-> 150, market_context |-> -50]),
    Some([iv_environment |-> 50, historical_accuracy |-> 50, bonus |-> 0])}

Breakdowns == [BreakdownKeys -> {0, 5025, ScoreMax}]

InitTotal ==
    /\ eventsFile = AbsentFile
    /\ ratingsFile = AbsentFile
    /\ last = NoCall
    /\ latest = NoneSaved
    /\ today = 1
    /\ cur = NoRating
    /\ call = NoScoreCall
    /\ probe \in {[fn |-> "weighted_total", arg |-> <<bd, w>>, ret |-> NONE] :
                    bd \in Breakdowns, w \in UnitWeightMappings}

\* probe.ret = bd.weighted_total(w)
ApplyTotal ==
    /\ probe.fn = "weighted_total"
    /\ probe.ret = NONE
    /\ probe' = [probe EXCEPT !.ret = Some(weighted_total(probe.arg[1], probe.arg[2]))]
    /\ UNCHANGED <<eventsFile, ratingsFile, last, latest, today, cur, call>>

SpecTotal == InitTotal /\ [][ApplyTotal]_vars

\* the weights weighted_total has in force for the mapping it is passed
WeightsInForce(w) == IF TruthyDict(w) THEN w[1] ELSE default_weights

\* C9: for every weight mapping whose weights sum to 1.0 and every breakdown
\* with all seven sub-scores in [0,100], weighted_total returns a value in
\* [0,100]; the default weights sum to 1.0.
C9_ClampingLaw ==
    /\ SumOfWeights(default_weights) = 100
    /\ (/\ probe.fn = "weighted_total"
        /\ probe.ret /= NONE
        /\ SumOfWeights(WeightsInForce(probe.arg[2])) = 100)
       => (0 <= probe.ret[1] /\ probe.ret[1] <= ScoreMax)

\* weighted_total has returned 100 where the weight-dot-product, under a
\* mapping with a negative entry that sums to 1.0, is 200
C9_Witness ==
    /\ probe.fn = "weighted_total"
    /\ probe.ret = Some(ScoreMax)
    /\ SumOfWeights(WeightsInForce(probe.arg[2])) = 100
    /\ \E k \in DOMAIN probe.arg[2][1] : probe.arg[2][1][k] < 0
    /\ DotProduct(probe.arg[1], probe.arg[2][1]) = 2 * 100 * ScoreMax

(***************************************************************************)
(* SpecStats: build_comparison, batch_compare and compute_stats applied to *)
(* lists of events, with and without ratings and a full event set          *)
(***************************************************************************)
MaxCompared == 3      \* longest list of events compared

\* a resolved event whose actual move is unknown
UnmovedEvent == [ZeroEvent(EventId2) EXCEPT
    !.outcome         = "MIXED",
    !.actual_move_pct = NONE,
    !.spy_move_pct    = Some(4000)]

\* a resolved event with no event_id and no benchmark move
UnkeyedEvent == [FullEvent(NONE) EXCEPT
    !.outcome         = "MIXED",
    !.actual_move_pct = Some(2),
    !.spy_move_pct    = NONE,
    !.iv_crush_pct    = NONE]

\* a pending event that carries an actual move
MovedPendingEvent == [BareEvent(EventId2) EXCEPT !.actual_move_pct = Some(40000)]

ComparedEvents == {ZeroEvent(EventId1), FullEvent(EventId2), BareEvent(EventId1),
                   UnmovedEvent, UnkeyedEvent, MovedPendingEvent}

\* the ratings passed with them: none, or one for the first event_id
ComparedRatings ==
    {NONE,
     Some(EventId1[1] :> ScoreEventOn(1, ZeroEvent(EventId1), NONE, NONE, NONE, NONE))}

\* the full event sets passed to compute_stats
OutcomeSets == {NONE, Some(<<>>),
                Some(<<ZeroEvent(EventId1), FullEvent(EventId2), UnmovedEvent>>),
                Some(<<ZeroEvent(EventId1), BareEvent(EventId1)>>)}

InitStats ==
    /\ eventsFile = AbsentFile
    /\ ratingsFile = AbsentFile
    /\ last = NoCall
    /\ latest = NoneSaved
    /\ today = 1
    /\ cur = NoRating
    /\ call = NoScoreCall
    /\ probe \in {[fn |-> "compare",
                    arg |-> [events |-> events, ratings |-> ratings,
                             events_for_outcome |-> events_for_outcome],
                    built |-> "none", comparisons |-> NONE, ret |-> NONE] :
                    events \in SeqsUpTo(ComparedEvents, MaxCompared),
                    ratings \in ComparedRatings,
                    events_for_outcome \in OutcomeSets}

\* comparisons = [build_comparison(e, ratings.get(e.event_id or "")) for e
\* in events], with no filter
ApplyBuildComparison ==
    /\ probe.fn = "compare"
    /\ probe.comparisons = NONE
    /\ LET by_id == IF probe.arg.ratings /= NONE THEN probe.arg.ratings[1] ELSE <<>>
           Compare(e) ==
               build_comparison(e, IF IdOrEmpty(e.event_id) \in DOMAIN by_id
                                   THEN Some(by_id[IdOrEmpty(e.event_id)]) ELSE NONE)
       IN  probe' = [probe EXCEPT
                       !.built = "build_comparison",
                       !.comparisons = Some(MapSeq(Compare, probe.arg.events))]
    /\ UNCHANGED <<eventsFile, ratingsFile, last, latest, today, cur, call>>

\* comparisons = batch_compare(events, ratings)
ApplyBatchCompare ==
    /\ probe.fn = "compare"
    /\ probe.comparisons = NONE
    /\ probe' = [probe EXCEPT
                   !.built = "batch_compare",
                   !.comparisons = Some(batch_compare(probe.arg.events,
                                                      probe.arg.ratings))]
    /\ UNCHANGED <<eventsFile, ratingsFile, last, latest, today, cur, call>>

\* probe.ret = compute_stats(comparisons, events_for_outcome)
ApplyComputeStats ==
    /\ probe.fn = "compare"
    /\ probe.comparisons /= NONE
    /\ probe.ret = NONE
    /\ probe' = [probe EXCEPT
                   !.ret = Some(compute_stats(probe.comparisons[1],
                                              probe.arg.events_for_outcome))]
    /\ UNCHANGED <<eventsFile, ratingsFile, last, latest, today, cur, call>>

NextStats == ApplyBuildComparison \/ ApplyBatchCompare \/ ApplyComputeStats

SpecStats == InitStats /\ [][NextStats]_vars

\* compute_stats has returned
StatsReturned == probe.fn = "compare" /\ probe.ret /= NONE

\* C16: compute_stats on an empty comparison list returns n_events = 0 and
\* None in every other field, whether or not events_for_outcome is given.
C16_EmptyStats ==
    (StatsReturned /\ probe.comparisons[1] = <<>>) =>
        /\ probe.ret[1].n_events = 0
        /\ \A f \in DOMAIN probe.ret[1] \ {"n_events"} : probe.ret[1][f] = NONE

\* compute_stats has returned for an empty comparison list and a full
\* event set of three events
C16_Witness ==
    /\ StatsReturned
    /\ probe.comparisons[1] = <<>>
    /\ probe.arg.events /= <<>>
    /\ probe.arg.events_for_outcome /= NONE
    /\ Len(probe.arg.events_for_outcome[1]) = 3
    /\ probe.ret[1].n_events = 0

Abs(x) == IF x < 0 THEN -x ELSE x

\* avg is None when no comparison has the field, and otherwise the mean of
\* the values present, to the nearest ten-thousandth
IsMeanOf(avg, comparisons, field) ==
    LET present == {i \in DOMAIN comparisons : comparisons[i][field] /= NONE}
        values  == [i \in present |-> comparisons[i][field][1]]
        k       == Cardinality(present)
    IN  IF present = {} THEN avg = NONE
        ELSE /\ avg /= NONE
             /\ 2 * Abs(avg[1] * k - SumOver(values, present)) <= k

\* C17: for a non-empty comparison list each average of compute_stats is
\* the arithmetic mean (rounded to 4 decimals) of the non-None values of its
\* field, None when the field is None in every comparison, and n_events is
\* the number of comparisons.
C17_MeansIgnoreNone ==
    (StatsReturned /\ probe.comparisons[1] /= <<>>) =>
        LET comparisons == probe.comparisons[1]
            stats == probe.ret[1]
        IN  /\ stats.n_events = Len(comparisons)
            /\ IsMeanOf(stats.avg_actual_move, comparisons, "actual_move_pct")
            /\ IsMeanOf(stats.avg_spy_move, comparisons, "spy_move_pct")
            /\ IsMeanOf(stats.avg_xbi_move, comparisons, "xbi_move_pct")
            /\ IsMeanOf(stats.avg_alpha_vs_spy, comparisons, "relative_to_spy")
            /\ IsMeanOf(stats.avg_alpha_vs_xbi, comparisons, "relative_to_xbi")
            /\ IsMeanOf(stats.avg_iv_crush, comparisons, "iv_crush_pct")

\* compute_stats has returned for three comparisons of which two have a
\* benchmark move (0 and 0.4, mean 0.2) and two an IV crush
C17_Witness ==
    /\ StatsReturned
    /\ probe.built = "batch_compare"
    /\ probe.arg.events = <<ZeroEvent(EventId1), FullEvent(EventId2), UnkeyedEvent>>
    /\ probe.ret[1].n_events = 3
    /\ probe.ret[1].avg_spy_move = Some(2000)
    /\ probe.ret[1].avg_iv_crush = Some(1750)
    /\ probe.ret[1].avg_actual_move = Some(-41666)

\* rate is the percentage of the events whose outcome is positive or
\* mixed, to the nearest hundredth
IsShareOf(rate, events) ==
    LET positives == {i \in DOMAIN events : events[i].outcome \in {"POSITIVE", "MIXED"}}
    IN  /\ rate /= NONE
        /\ 2 * Abs(rate[1] * Len(events) - Cardinality(positives) * 10000)
              <= Len(events)

\* C18 as stated: when events_for_outcome is supplied and non-empty, the
\* positive_outcome_rate is the share of that set whose outcome is positive
\* or mixed, whichever and however many events qualified as comparisons.
C18_RateOfFullSetAsStated ==
    (/\ StatsReturned
     /\ probe.arg.events_for_outcome /= NONE
     /\ probe.arg.events_for_outcome[1] /= <<>>)
    => IsShareOf(probe.ret[1].positive_outcome_rate, probe.arg.events_for_outcome[1])

\* C18, amended: when events_for_outcome is supplied and non-empty and at
\* least one event qualified as a comparison, the positive_outcome_rate is
\* the percentage of the full set whose outcome is positive or mixed,
\* whichever comparisons there are; on an empty comparison list it is None.
C18_RateOfFullSet ==
    (/\ StatsReturned
     /\ probe.arg.events_for_outcome /= NONE
     /\ probe.arg.events_for_outcome[1] /= <<>>)
    => IF probe.comparisons[1] = <<>>
       THEN probe.ret[1].positive_outcome_rate = NONE
       ELSE IsShareOf(probe.ret[1].positive_outcome_rate,
                      probe.arg.events_for_outcome[1])

\* compute_stats has returned 66.67 for a full set of three events, two of
\* them positive or mixed, and one comparison of another event
C18_Witness ==
    /\ StatsReturned
    /\ probe.built = "batch_compare"
    /\ probe.arg.events = <<UnkeyedEvent, BareEvent(EventId1)>>
    /\ Len(probe.comparisons[1]) = 1
    /\ probe.arg.events_for_outcome /= NONE
    /\ Len(probe.arg.events_for_outcome[1]) = 3
    /\ probe.ret[1].positive_outcome_rate = Some(6667)

\* C19: build_comparison sets relative_to_spy to actual_move_pct minus
\* spy_move_pct and relative_to_xbi to actual_move_pct minus xbi_move_pct
\* when both operands are present (a move of 0 is present), and to None when
\* either is None; with no Rating, rating_grade and rating_score are None.
C19_RelativeMoves ==
    (probe.fn = "compare" /\ probe.built = "build_comparison") =>
        /\ Len(probe.comparisons[1]) = Len(probe.arg.events)
        /\ \A i \in DOMAIN probe.arg.events :
              LET e == probe.arg.events[i]
                  c == probe.comparisons[1][i]
              IN  /\ c.relative_to_spy =
                        IF e.actual_move_pct = NONE \/ e.spy_move_pct = NONE
                        THEN NONE
                        ELSE Some(e.actual_move_pct[1] - e.spy_move_pct[1])
                  /\ c.relative_to_xbi =
                        IF e.actual_move_pct = NONE \/ e.xbi_move_pct = NONE
                        THEN NONE
                        ELSE Some(e.actual_move_pct[1] - e.xbi_move_pct[1])
                  /\ probe.arg.ratings = NONE =>
                        (c.rating_grade = NONE /\ c.rating_score = NONE)

\* build_comparison has returned, with no Rating, for an event whose actual
\* and benchmark moves are 0 and whose sector move is unknown
C19_Witness ==
    /\ probe.fn = "compare"
    /\ probe.built = "build_comparison"
    /\ probe.arg.ratings = NONE
    /\ probe.arg.events = <<ZeroEvent(EventId1), FullEvent(EventId2)>>
    /\ probe.comparisons[1][1].relative_to_spy = Some(0)
    /\ probe.comparisons[1][1].relative_to_xbi = NONE
    /\ probe.comparisons[1][2].relative_to_spy = Some(-129000)
    /\ probe.comparisons[1][1].rating_grade = NONE

(***************************************************************************)
(* SpecLoad: load_events and load_ratings called on backing files that are *)
(* absent, undecodable as JSON, or hold rows the decoders accept or reject *)
(***************************************************************************)
MaxLoaded == 2      \* most rows in a backing file that is loaded

\* rows of an events file: two that _dict_to_event accepts, one with keys
\* missing, one whose event_type is no EventType value
LoadedEventRows ==
    {EventToDict(BareEvent(EventId1)), EventToDict(FullEvent(EventId2)),
     [ticker |-> "ABCD"],
     [EventToDict(BareEvent(EventId1)) EXCEPT !.event_type = "ipo"]}

\* rows of a ratings file: two that _dict_to_rating accepts, one with keys
\* missing, one whose recommended_strategy is no OptionsStrategy value
LoadedRatingRows ==
    {RatingToDict(ScoreEventOn(1, ZeroEvent(EventId1), NONE, NONE, NONE, NONE)),
     RatingToDict(ScoreEventOn(1, FullEvent(EventId2), NONE, NONE, NONE, NONE)),
     [event_id |-> EventId1],
     [RatingToDict(ScoreEventOn(1, ZeroEvent(EventId1), NONE, NONE, NONE, NONE))
        EXCEPT !.recommended_strategy = "buy_stock"]}

\* the backing files: absent, not JSON, or a JSON list of rows
FilesOf(rows) ==
    {AbsentFile, CorruptFile}
    \cup {[exists |-> TRUE, json_ok |-> TRUE, rows |-> r] :
            r \in SeqsUpTo(rows, MaxLoaded)}

\* load_events without its except clause: what the try block does
LoadEventsUncaught(f) ==
    IF ~f.exists THEN Returned(<<>>)
    ELSE IF ~f.json_ok \/ \E i \in DOMAIN f.rows : ~EventDecodes(f.rows[i])
         THEN Raised
         ELSE Returned(MapSeq(DictToEvent, f.rows))

\* a call of store.load_events(): every path returns a list
LoadEventsCall(f) == Returned(load_events(f))

\* load_ratings without its except clause
LoadRatingsUncaught(f) ==
    IF ~f.exists THEN Returned(<<>>)
    ELSE IF ~f.json_ok \/ \E i \in DOMAIN f.rows : ~RatingDecodes(f.rows[i])
         THEN Raised
         ELSE Returned(MapSeq(DictToRating, f.rows))

\* a call of store.load_ratings(): every path returns a list
LoadRatingsCall(f) == Returned(load_ratings(f))

InitLoad ==
    /\ eventsFile \in FilesOf(LoadedEventRows)
    /\ ratingsFile \in FilesOf(LoadedRatingRows)
    /\ last = NoCall
    /\ latest = NoneSaved
    /\ today = 1
    /\ cur = NoRating
    /\ call = NoScoreCall
    /\ probe = NoProbe

\* store.load_events()
LoadEventsOnFile ==
    /\ probe' = [fn |-> "load_events", arg |-> eventsFile,
                 ret |-> LoadEventsCall(eventsFile)]
    /\ UNCHANGED <<eventsFile, ratingsFile, last, latest, today, cur, call>>

\* store.load_ratings()
LoadRatingsOnFile ==
    /\ probe' = [fn |-> "load_ratings", arg |-> ratingsFile,
                 ret |-> LoadRatingsCall(ratingsFile)]
    /\ UNCHANGED <<eventsFile, ratingsFile, last, latest, today, cur, call>>

NextLoad == LoadEventsOnFile \/ LoadRatingsOnFile

SpecLoad == InitLoad /\ [][NextLoad]_vars

\* the list ret holds exactly the rows of f, each decoded by Decode
IsDecodedCollection(ret, f, Decode(_)) ==
    /\ Len(ret) = Len(f.rows)
    /\ \A i \in DOMAIN f.rows : ret[i] = Decode(f.rows[i])

\* C21: load_events and load_ratings never raise: they return the full
\* decoded collection when the backing file decodes, an empty collection
\* when the backing file does not exist, and an empty collection when
\* decoding the file fails.
C21_LoadNeverRaises ==
    /\ probe.fn = "load_events" =>
          /\ ~probe.ret.raised
          /\ IF ~probe.arg.exists THEN probe.ret.value = <<>>
             ELSE IF /\ probe.arg.json_ok
                     /\ \A i \in DOMAIN probe.arg.rows :
                           EventDecodes(probe.arg.rows[i])
                  THEN IsDecodedCollection(probe.ret.value, probe.arg,
                                           DictToEvent)
                  ELSE probe.ret.value = <<>>
    /\ probe.fn = "load_ratings" =>
          /\ ~probe.ret.raised
          /\ IF ~probe.arg.exists THEN probe.ret.value = <<>>
             ELSE IF /\ probe.arg.json_ok
                     /\ \A i \in DOMAIN probe.arg.rows :
                           RatingDecodes(probe.arg.rows[i])
                  THEN IsDecodedCollection(probe.ret.value, probe.arg,
                                           DictToRating)
                  ELSE probe.ret.value = <<>>

\* load_events has returned an empty list for a file whose second row has
\* an event_type the decoder rejects
C21_Witness ==
    /\ probe.fn = "load_events"
    /\ probe.arg.exists /\ probe.arg.json_ok
    /\ Len(probe.arg.rows) = 2
    /\ EventDecodes(probe.arg.rows[1])
    /\ ~EventDecodes(probe.arg.rows[2])
    /\ probe.ret = Returned(<<>>)

\* load_ratings has returned both ratings of a file that decodes
C21_WitnessDecoded ==
    /\ probe.fn = "load_ratings"
    /\ probe.arg.exists /\ probe.arg.json_ok
    /\ Len(probe.arg.rows) = 2
    /\ ~probe.ret.raised
    /\ Len(probe.ret.value) = 2
    /\ probe.ret.value[1].event_id /= probe.ret.value[2].event_id

(***************************************************************************)
(* SpecExport: export_json and the export command on stores that hold      *)
(* events with and without a rating; the output path may be any path, the  *)
(* store's own two files included                                          *)
(***************************************************************************)
MaxExported == 2      \* most events, and most ratings, in the exported store

\* EventStore.export_json: the list it dumps
export_json(events_file, ratings_file, include_ratings) ==
    LET events  == load_events(events_file)
        ratings == IF include_ratings THEN ratings_by_event(ratings_file)
                   ELSE <<>>
        Rec(event) ==
            EventToDict(event) @@
            ("rating" :>
                IF IdOrEmpty(event.event_id) \in DOMAIN ratings
                THEN Some(RatingToDict(ratings[IdOrEmpty(event.event_id)]))
                ELSE NONE)
    IN  MapSeq(Rec, events)

\* open(output_path, "w") and json.dump(export, f): the file it leaves
DumpedFile(export) == [exists |-> TRUE, json_ok |-> TRUE, rows |-> export]

\* where output_path points: at the events file, at the ratings file, or
\* at any other file
OutputPaths == {"events_path", "ratings_path", "elsewhere"}

\* the events of the exported store: one rated, one that may be unrated,
\* one with no event_id
ExportedEvents == {ZeroEvent(EventId1), FullEvent(EventId2), BareEvent(NONE)}

\* the ratings of the exported store
ExportedRatings ==
    {ScoreEventOn(1, ZeroEvent(EventId1), NONE, NONE, NONE, NONE),
     ScoreEventOn(1, FullEvent(EventId2), NONE, NONE, NONE, NONE)}

InitExport ==
    /\ eventsFile \in {AbsentFile, CorruptFile}
          \cup {save_events(e) : e \in SeqsUpTo(ExportedEvents, MaxExported)}
    /\ ratingsFile \in {AbsentFile}
          \cup {save_ratings(r) : r \in SeqsUpTo(ExportedRatings, MaxExported)}
    /\ last = NoCall
    /\ latest = NoneSaved
    /\ today = 1
    /\ cur = NoRating
    /\ call = NoScoreCall
    /\ probe = NoProbe

\* the arguments and result of an export_json call, as the probe keeps them
ExportProbe(output_path, include_ratings) ==
    [fn |-> "export_json",
     arg |-> [output_path |-> output_path,
              include_ratings |-> include_ratings,
              events_file |-> eventsFile,
              ratings_file |-> ratingsFile],
     ret |-> export_json(eventsFile, ratingsFile, include_ratings)]

\* store.export_json(output_path, include_ratings)
ExportJson ==
    \E output_path \in OutputPaths, include_ratings \in BOOLEAN :
        LET export == export_json(eventsFile, ratingsFile, include_ratings) IN
        /\ eventsFile' = IF output_path = "events_path"
                         THEN DumpedFile(export) ELSE eventsFile
        /\ ratingsFile' = IF output_path = "ratings_path"
                          THEN DumpedFile(export) ELSE ratingsFile
        /\ probe' = ExportProbe(output_path, include_ratings)
        /\ UNCHANGED <<last, latest, today, cur, call>>

\* the export command: store.export_json(Path(args.output))
CmdExport ==
    \E output \in OutputPaths :
        LET export == export_json(eventsFile, ratingsFile, TRUE) IN
        /\ eventsFile' = IF output = "events_path"
                         THEN DumpedFile(export) ELSE eventsFile
        /\ ratingsFile' = IF output = "ratings_path"
                          THEN DumpedFile(export) ELSE ratingsFile
        /\ probe' = [ExportProbe(output, TRUE) EXCEPT !.fn = "export"]
        /\ UNCHANGED <<last, latest, today, cur, call>>

NextExport == ExportJson \/ CmdExport

SpecExport == InitExport /\ [][NextExport]_vars

\* the ratings of the store stored under the event_id of event
RatingsOf(ratings, event) ==
    {ratings[i] : i \in {j \in DOMAIN ratings :
                            Some(ratings[j].event_id) = event.event_id}}

\* C22: export_json never mutates the underlying stores: for every output
\* path, the persisted event collection and the persisted rating collection
\* are the same after the call as before it; the exported view has one
\* record per stored Event, in stored order, each with its Rating (matched
\* by event_id) or None nested.
C22_ExportReadOnly ==
    probe.fn \in {"export_json", "export"} =>
        LET events  == load_events(probe.arg.events_file)
            ratings == load_ratings(probe.arg.ratings_file)
        IN  /\ load_events(eventsFile) = events
            /\ load_ratings(ratingsFile) = ratings
            /\ Len(probe.ret) = Len(events)
            /\ \A i \in DOMAIN events :
                  /\ \A k \in DOMAIN EventToDict(events[i]) :
                        probe.ret[i][k] = EventToDict(events[i])[k]
                  /\ \/ probe.ret[i].rating = NONE
                     \/ \E r \in RatingsOf(ratings, events[i]) :
                           probe.ret[i].rating = Some(RatingToDict(r))
                  /\ (probe.arg.include_ratings
                      /\ RatingsOf(ratings, events[i]) /= {})
                        => probe.ret[i].rating /= NONE

\* the store files are left alone and the view is as stated whenever the
\* output path is not one of the store's own files
C22_ReadOnlyElsewhere ==
    (probe.fn \in {"export_json", "export"}
     /\ probe.arg.output_path = "elsewhere") =>
        /\ eventsFile = probe.arg.events_file
        /\ ratingsFile = probe.arg.ratings_file
        /\ C22_ExportReadOnly

\* export_json has written its view over the ratings file of a store that
\* held a rating, and load_ratings now returns nothing
C22_RatingsLost ==
    /\ probe.fn = "export_json"
    /\ probe.arg.output_path = "ratings_path"
    /\ load_ratings(probe.arg.ratings_file) /= <<>>
    /\ load_ratings(ratingsFile) = <<>>

(***************************************************************************)
(* SpecRace: two callers run save_event on the same backing file, each for *)
(* its own event_id.  A call is two steps, the load of line 173 and the    *)
(* patch and rewrite of lines 174-184; the steps of the two calls          *)
(* interleave freely.  call[p] is the position of caller p.                *)
(***************************************************************************)
Callers == {1, 2}

\* lines 174-183 of save_event: the loaded list with the event put in
upsert(events, event) ==
    LET idx == FirstIndex(events, event.event_id) IN
    IF idx /= NONE THEN [events EXCEPT ![idx[1]] = event]
    ELSE Append(events, event)

\* a rewrite that loads the file again before it patches
persist_reloaded(f, events, event) == save_event(f, event)

\* lines 174-184 of save_event: the file left by the caller that loaded
\* events
persist_loaded(f, events, event) == save_events(upsert(events, event))

\* the event each caller saves
RacedEvents ==
    {[p \in Callers |-> IF p = 1 THEN e1 ELSE e2] :
        e1 \in {ZeroEvent(EventId1), FullEvent(EventId1)},
        e2 \in {ZeroEvent(EventId2), FullEvent(EventId2)}}

\* the backing file the callers find: absent, undecodable, empty, or
\* holding an older record of either event and a record of a third
RacedFiles ==
    {AbsentFile, CorruptFile, save_events(<<>>),
     save_events(<<BareEvent(EventId1)>>),
     save_events(<<BareEvent(UnknownId), BareEvent(EventId2)>>),
     save_events(<<BareEvent(EventId2), BareEvent(EventId1)>>)}

InitRace ==
    /\ eventsFile \in RacedFiles
    /\ ratingsFile = AbsentFile
    /\ last = [NoCall EXCEPT !.op = "race"]
    /\ latest = NoneSaved
    /\ today = 1
    /\ cur = NoRating
    /\ \E events \in RacedEvents :
          call = [p \in Callers |->
                    [pc |-> "called", event |-> events[p], events |-> <<>>,
                     persisted_before |-> 0]]
    /\ probe = NoProbe

\* a caller runs line 173: events = self.load_events(); last.n counts the
\* rewrites finished so far
LoadForSave ==
    \E p \in Callers :
        /\ call[p].pc = "called"
        /\ call' = [call EXCEPT ![p].pc = "loaded",
                                ![p].events = load_events(eventsFile),
                                ![p].persisted_before = last.n]
        /\ UNCHANGED <<eventsFile, ratingsFile, last, latest, today, cur, probe>>

\* a caller runs lines 174-184: patch the loaded list and rewrite the file
PersistSave ==
    \E p \in Callers :
        /\ call[p].pc = "loaded"
        /\ eventsFile' = persist_loaded(eventsFile, call[p].events,
                                        call[p].event)
        /\ call' = [call EXCEPT ![p].pc = "returned"]
        /\ last' = [last EXCEPT !.n = last.n + 1]
        /\ UNCHANGED <<ratingsFile, latest, today, cur, probe>>

NextRace == LoadForSave \/ PersistSave

SpecRace == InitRace /\ [][NextRace]_vars

\* both save_event calls have returned
BothReturned == \A p \in Callers : call[p].pc = "returned"

\* both callers loaded before either rewrote the file
Interleaved == \A p \in Callers : call[p].persisted_before = 0

\* the persisted collection holds the event caller p saved
Persisted(p) ==
    get_event(eventsFile, call[p].event.event_id) = Some(call[p].event)

\* C23: the load-modify-save upsert is not atomic: when two save_event
\* calls for different event_ids interleave on the same backing store (both
\* load before either persists), one of the two events is missing from the
\* persisted collection once both have returned (lost update); when the two
\* calls run one after the other no event is lost.
C23_LostUpdate ==
    BothReturned =>
        /\ Interleaved => \E p \in Callers : ~Persisted(p)
        /\ ~Interleaved => \A p \in Callers : Persisted(p)

\* both calls have returned after loading an empty store together, and the
\* persisted collection holds the second caller's event alone
C23_Witness ==
    /\ BothReturned
    /\ Interleaved
    /\ Len(eventsFile.rows) = 1
    /\ Persisted(2)
    /\ get_event(eventsFile, call[1].event.event_id) = NONE

\* the calls ran one after the other and both events are persisted
C23_WitnessSequential ==
    /\ BothReturned
    /\ ~Interleaved
    /\ \A p \in Callers : Persisted(p)

(***************************************************************************)
(* SpecLife: one store, empty at first, driven by the add, score and       *)
(* resolve commands and by delete_event                                    *)
(***************************************************************************)
\* the uuid4 prefixes create_event draws
LifeUuid8s == {"0a1b2c3d", "9f8e7d6c"}

\* the event ids passed to the score and resolve commands and to
\* delete_event
LifeIds == {EventId1, EventId2, UnknownId}

\* the --iv-rank of the score command
LifeIvRanks == {NONE, Some(5500)}

\* the add command that never asks for a market context
LifeAddArgs == {args \in AddArgs : args.no_market}

InitLife ==
    /\ eventsFile = AbsentFile
    /\ ratingsFile = AbsentFile
    /\ last = NoCall
    /\ latest = NoneSaved
    /\ today = 1
    /\ cur = NoRating
    /\ call = [op |-> "none", event_id |-> NONE, found |-> NONE]
    /\ probe = NoProbe

\* cmd_add: create_event, then store.save_event
LifeAdd ==
    \E args \in LifeAddArgs, uuid8 \in LifeUuid8s :
        LET created == create_event(
                args.ticker, args.company, EnumOf(EventType, args.type),
                fromisoformat(args.date), args.desc,
                EnumOf(SentimentTag, args.sentiment), args.stage,
                args.indication, args.endpoint,
                Some(IF args.competing /= NONE THEN args.competing[1] ELSE <<>>),
                IF args.notes /= NONE THEN args.notes[1] ELSE "",
                ~args.no_market,
                Some(IF args.tags /= NONE THEN args.tags[1] ELSE <<>>),
                uuid8, ProviderMissing).value
        IN  /\ eventsFile' = save_event(eventsFile, created)
            /\ call' = [op |-> "cmd_add", event_id |-> created.event_id,
                        found |-> NONE]
            /\ cur' = NoRating
            /\ UNCHANGED <<ratingsFile, last, latest, today, probe>>

\* cmd_score: store.get_event, store.load_events as the history,
\* score_event, then store.save_rating; sys.exit(1) when the event is not
\* found
CmdScore ==
    \E event_id \in LifeIds, iv_rank \in LifeIvRanks :
        LET found       == get_event(eventsFile, event_id)
            past_events == load_events(eventsFile)
            rating      == score_event(found[1], iv_rank, Some(past_events),
                                       NONE, NONE)
        IN  /\ call' = [op |-> "cmd_score", event_id |-> event_id,
                        found |-> found]
            /\ IF found = NONE
               THEN UNCHANGED <<ratingsFile, cur>>
               ELSE /\ ratingsFile' = save_rating(ratingsFile, rating)
                    /\ cur' = Some(rating)
            /\ UNCHANGED <<eventsFile, last, latest, today, probe>>

\* cmd_resolve with --no-fetch: store.get_event, resolve_event, then
\* store.save_event; sys.exit(1) when the event is not found
LifeResolve ==
    \E event_id \in LifeIds, outcome \in ResolveOutcomes :
        LET found    == get_event(eventsFile, event_id)
            resolved == resolve_event(found[1], EnumOf(EventOutcome, outcome),
                                      "", FALSE, ProviderMissing).value
        IN  /\ call' = [op |-> "cmd_resolve", event_id |-> event_id,
                        found |-> found]
            /\ IF found = NONE
               THEN UNCHANGED eventsFile
               ELSE eventsFile' = save_event(eventsFile, resolved)
            /\ cur' = NoRating
            /\ UNCHANGED <<ratingsFile, last, latest, today, probe>>

\* store.delete_event(event_id)
LifeDelete ==
    \E event_id \in LifeIds :
        /\ eventsFile' = delete_event(eventsFile, event_id).file
        /\ call' = [op |-> "delete_event", event_id |-> event_id,
                    found |-> get_event(eventsFile, event_id)]
        /\ cur' = NoRating
        /\ UNCHANGED <<ratingsFile, last, latest, today, probe>>

NextLife == LifeAdd \/ CmdScore \/ LifeResolve \/ LifeDelete

SpecLife == InitLife /\ [][NextLife]_vars

\* the rows of the persisted event collection stored under the event_id of
\* a rating row
EventRowsOf(rating_row) ==
    {j \in DOMAIN eventsFile.rows :
        eventsFile.rows[j].event_id = Some(rating_row.event_id)}

\* C24: in every state reachable through the add, score, resolve and
\* delete_event operations on one store, every persisted Rating is tied to
\* an Event: its event_id is non-null and equals the event_id of exactly
\* one persisted Event.  (A rating row holds the event_id string itself:
\* score_event raises before it builds a Rating for an event without one.)
C24_RatingsTied ==
    \A i \in DOMAIN ratingsFile.rows :
        /\ Some(ratingsFile.rows[i].event_id) /= NONE
        /\ Cardinality(EventRowsOf(ratingsFile.rows[i])) = 1

\* the same, in the states the add, score and resolve commands reach before
\* any delete_event has removed an event
C24_TiedUntilDelete ==
    [][(call'.op /= "delete_event" /\ C24_RatingsTied) => C24_RatingsTied']_vars

\* delete_event has removed a rated event and its rating is still persisted
C24_OrphanedRating ==
    /\ call.op = "delete_event"
    /\ call.found /= NONE
    /\ \E i \in DOMAIN ratingsFile.rows :
          /\ Some(ratingsFile.rows[i].event_id) = call.event_id
          /\ EventRowsOf(ratingsFile.rows[i]) = {}

(***************************************************************************)
(* SpecIv: _iv_environment_score, alone and inside score_event, applied to *)
(* an event of every type with and without an IV rank                      *)
(***************************************************************************)
IvRankMax == 10000      \* IV rank 100.00, the top of the documented range

\* the IV ranks supplied: every quarter point of [0, 100] and the
\* hundredths on either side of 20, 40 and 70
IvRankValues ==
    {r \in 0..IvRankMax : r % 25 = 0} \cup {1999, 2001, 3999, 4001, 6999, 7001}

\* the events scored: every type, neutral or bullish
IvEvents ==
    {[EventOfType(t) EXCEPT !.sentiment = s] :
        t \in DOMAIN EventType, s \in {"NEUTRAL", "STRONG_BUY"}}

InitIv ==
    /\ eventsFile = AbsentFile
    /\ ratingsFile = AbsentFile
    /\ last = NoCall
    /\ latest = NoneSaved
    /\ today = 1
    /\ cur = NoRating
    /\ call = NoScoreCall
    /\ probe \in {[fn |-> "iv_environment_score",
                   arg |-> [event |-> e, iv_rank |-> r], ret |-> NONE] :
                    e \in IvEvents,
                    r \in {NONE} \cup {Some(v) : v \in IvRankValues}}

\* probe.ret = _iv_environment_score(event, iv_rank)
ApplyIvScore ==
    /\ probe.fn = "iv_environment_score"
    /\ probe.ret = NONE
    /\ probe' = [probe EXCEPT
                   !.ret = Some(iv_environment_score(probe.arg.event,
                                                     probe.arg.iv_rank))]
    /\ UNCHANGED <<eventsFile, ratingsFile, last, latest, today, cur, call>>

\* cur = score_event(event, iv_rank=iv_rank)
ScoreWithIv ==
    /\ probe.fn = "iv_environment_score"
    /\ cur = NoRating
    /\ cur' = Some(score_event(probe.arg.event, probe.arg.iv_rank, NONE,
                               NONE, NONE))
    /\ UNCHANGED <<eventsFile, ratingsFile, last, latest, today, call, probe>>

NextIv == ApplyIvScore \/ ScoreWithIv

SpecIv == InitIv /\ [][NextIv]_vars

\* the IV-environment sub-score the table gives, in hundredths
IvTable(event_type, iv_rank) ==
    IF iv_rank /= NONE
    THEN CASE 4000 <= iv_rank[1] /\ iv_rank[1] <= 7000 -> 8000
           [] 2000 <= iv_rank[1] /\ iv_rank[1] < 4000  -> 6500
           [] 7000 < iv_rank[1] /\ iv_rank[1] <= 10000 -> 5500
           [] 0 <= iv_rank[1] /\ iv_rank[1] < 2000     -> 4000
    ELSE CASE event_type \in {"fda_pdufa", "fda_adcom", "clinical_readout"}
                                          -> 6200
           [] event_type = "earnings"      -> 6800
           [] event_type = "macro_release" -> 5500
           [] OTHER                        -> 6000

\* C25: the IV-environment sub-score, when a numeric IV rank in [0,100] is
\* supplied, is 80 for rank in [40,70], 65 for [20,40), 55 for (70,100] and
\* 40 for [0,20), the event type ignored; when no IV rank is supplied it is
\* 62 for the three binary types, 68 for earnings, 55 for macro_release and
\* 60 for every other type, so a neutral earnings Event with no IV rank
\* scores 68 and is recommended an iron condor.
C25_IvEnvironment ==
    LET event   == probe.arg.event
        iv_rank == probe.arg.iv_rank
        expect  == IvTable(EventType[event.event_type], iv_rank)
    IN  probe.fn = "iv_environment_score" =>
          /\ probe.ret /= NONE => probe.ret[1] = expect
          /\ cur /= NoRating =>
                /\ cur[1].score_breakdown.iv_environment = expect
                /\ (/\ event.event_type = "EARNINGS"
                    /\ event.sentiment = "NEUTRAL"
                    /\ iv_rank = NONE)
                   => /\ cur[1].score_breakdown.iv_environment = 6800
                      /\ OptionsStrategy[cur[1].recommended_strategy]
                            = "iron_condor"

\* a neutral earnings event has been scored with no IV rank
C25_Witness ==
    /\ probe.fn = "iv_environment_score"
    /\ probe.arg.event.event_type = "EARNINGS"
    /\ probe.arg.event.sentiment = "NEUTRAL"
    /\ probe.arg.iv_rank = NONE
    /\ probe.ret = Some(6800)
    /\ cur /= NoRating
    /\ cur[1].recommended_strategy = "IRON_CONDOR"

\* the rank 70.00 has scored 80 and the rank 40.00 too, on a partnership
C25_WitnessEdges ==
    /\ probe.fn = "iv_environment_score"
    /\ probe.arg.event.event_type = "PARTNERSHIP"
    /\ probe.arg.iv_rank \in {Some(4000), Some(7000)}
    /\ probe.ret = Some(8000)

(***************************************************************************)
(* SpecCatalyst: catalyst_quality_score applied to events of every type,   *)
(* sentiment, pipeline stage and kind of primary endpoint text             *)
(***************************************************************************)
\* the pipeline stages given: none, the empty text, every stage of the
\* table and one the table does not know
CatalystStages ==
    {NONE, Some(""), Some("Phase 4")}
    \cup {Some(stage) : stage \in DOMAIN PIPELINE_STAGE_WEIGHT}

\* the primary endpoints given: none, the empty text, a text of 10
\* characters and texts of 11 and of 21
CatalystEndpoints ==
    {NONE, Some(""), Some("OS >= 3 mo"), Some("ORR >= 30 %"),
     Some("OS improvement >= 3mo")}

CatalystEvents ==
    {[BareEvent(EventId1) EXCEPT !.event_type = t, !.sentiment = s,
                                 !.pipeline_stage = stage,
                                 !.primary_endpoint = endpoint] :
        t \in DOMAIN EventType, s \in DOMAIN SentimentTag,
        stage \in CatalystStages, endpoint \in CatalystEndpoints}

InitCatalyst ==
    /\ eventsFile = AbsentFile
    /\ ratingsFile = AbsentFile
    /\ last = NoCall
    /\ latest = NoneSaved
    /\ today = 1
    /\ cur = NoRating
    /\ call = NoScoreCall
    /\ probe \in {[fn |-> "catalyst_quality_score", arg |-> e, ret |-> NONE] :
                    e \in CatalystEvents}

\* probe.ret = catalyst_quality_score(event)
ApplyCatalystQuality ==
    /\ probe.fn = "catalyst_quality_score"
    /\ probe.ret = NONE
    /\ probe' = [probe EXCEPT !.ret = Some(catalyst_quality_score(probe.arg))]
    /\ UNCHANGED <<eventsFile, ratingsFile, last, latest, today, cur, call>>

SpecCatalyst == InitCatalyst /\ [][ApplyCatalystQuality]_vars

\* the per-type priority base of the specification
PriorityBase(event_type) ==
    CASE event_type = "fda_pdufa"        -> 95
      [] event_type = "fda_adcom"        -> 85
      [] event_type = "clinical_readout" -> 80
      [] event_type = "partnership"      -> 55
      [] event_type = "earnings"         -> 50
      [] event_type = "competitor_event" -> 40
      [] event_type = "macro_release"    -> 35
      [] event_type = "conference_pres"  -> 30
      [] event_type = "other"            -> 25
      [] event_type = "sec_filing"       -> 20

\* the stage factor of the specification, in hundredths
StageFactor(stage) ==
    CASE stage \in {"Approved", "Marketed"}   -> 100
      [] stage = "PDUFA date"                 -> 95
      [] stage \in {"NDA filed", "BLA filed"} -> 92
      [] stage = "Phase 3"                    -> 90
      [] stage = "Phase 2/3"                  -> 75
      [] stage = "Phase 2"                    -> 65
      [] stage = "Phase 1/2"                  -> 50
      [] stage = "Phase 1"                    -> 45
      [] stage = "Preclinical"                -> 30
      [] OTHER                                -> 70

\* C26: the catalyst-quality sub-score of every Event is in [0,100] and is
\* computed in this order: the per-type priority base; multiplied by the
\* stage factor only for the three binary types with a non-empty pipeline
\* stage (table factor for a known stage, 0.70 for an unknown one, no
\* multiplier otherwise); then +5 capped at 100 when the primary endpoint
\* text is longer than 10 characters; then the sentiment adjustment
\* +8/+4/0/-4/-8; then a final clamp to [0,100].
C26_CatalystQuality ==
    (probe.fn = "catalyst_quality_score" /\ probe.ret /= NONE) =>
        LET e == probe.arg
            t == EventType[e.event_type]
            base == 100 * PriorityBase(t)
            staged ==
                IF /\ t \in {"fda_pdufa", "fda_adcom", "clinical_readout"}
                   /\ e.pipeline_stage /= NONE
                   /\ e.pipeline_stage[1] /= ""
                THEN PriorityBase(t) * StageFactor(e.pipeline_stage[1])
                ELSE base
            bonused ==
                IF /\ e.primary_endpoint /= NONE
                   /\ StrLen(e.primary_endpoint[1]) > 10
                THEN Min(staged + 500, 10000) ELSE staged
            adjusted ==
                bonused + CASE e.sentiment = "STRONG_BUY"  -> 800
                            [] e.sentiment = "BUY"         -> 400
                            [] e.sentiment = "NEUTRAL"     -> 0
                            [] e.sentiment = "SELL"        -> -400
                            [] e.sentiment = "STRONG_SELL" -> -800
        IN  /\ 0 <= probe.ret[1] /\ probe.ret[1] <= 10000
            /\ probe.ret[1] = Min(Max(adjusted, 0), 10000)

\* a strong-buy PDUFA event at an approved stage with a long endpoint text
\* has scored 100 after the clamp; without the clamp it would be 108
C26_Witness ==
    /\ probe.fn = "catalyst_quality_score"
    /\ probe.arg.event_type = "FDA_PDUFA"
    /\ probe.arg.pipeline_stage = Some("Approved")
    /\ probe.arg.primary_endpoint = Some("ORR >= 30 %")
    /\ probe.arg.sentiment = "STRONG_BUY"
    /\ probe.ret = Some(10000)

\* an earnings event has scored its base with a stage given, and a readout
\* at an unknown stage 0.70 of its base
C26_WitnessStage ==
    /\ probe.fn = "catalyst_quality_score"
    /\ probe.arg.pipeline_stage = Some("Phase 4")
    /\ probe.arg.primary_endpoint = Some("OS >= 3 mo")
    /\ probe.arg.sentiment = "NEUTRAL"
    /\ \/ probe.arg.event_type = "EARNINGS" /\ probe.ret = Some(5000)
       \/ probe.arg.event_type = "CLINICAL_READOUT" /\ probe.ret = Some(5600)

\* the history entries that qualify for the event: same ticker, same event
\* type, outcome other than pending
Qualifying(event, history) ==
    {i \in DOMAIN history :
        /\ history[i].ticker = event.ticker
        /\ history[i].event_type = event.event_type
        /\ history[i].outcome /= "PENDING"}

\* 50 when no entry of rows qualifies, else the percentage, in hundredths
\* and to the nearest hundredth, of the entries of rows that are positive
\* or mixed
IsAccuracyOf(score, history, rows) ==
    IF rows = {} THEN score = 5000
    ELSE LET hits == {i \in rows : history[i].outcome \in {"POSITIVE", "MIXED"}}
         IN  2 * Abs(score * Cardinality(rows) - 10000 * Cardinality(hits))
                <= Cardinality(rows)

\* C27: the historical-accuracy sub-score considers only prior resolved
\* events: history entries with the same ticker and the same event type as
\* the scored Event and outcome other than pending; it is 50 when the
\* history is absent or no entry qualifies, otherwise the percentage of
\* qualifying entries whose outcome is positive or mixed (negative and
\* withdrawn entries count in the denominator only), and the scored Event's
\* own record, when present in the supplied history as the score command
\* supplies it, is not counted.
C27_PriorEventsOnly ==
    (call.op = "cmd_score" /\ call.found /= NONE) =>
        LET event   == call.found[1]
            history == load_events(eventsFile)
            prior   == {i \in Qualifying(event, history) :
                           history[i].event_id /= event.event_id}
        IN  IsAccuracyOf(cur[1].score_breakdown.historical_accuracy,
                         history, prior)

\* what the score command computes: the percentage over every qualifying
\* entry of the store, the record of the scored event among them
C27_OwnRecordCounted ==
    (call.op = "cmd_score" /\ call.found /= NONE) =>
        LET event   == call.found[1]
            history == load_events(eventsFile)
        IN  IsAccuracyOf(cur[1].score_breakdown.historical_accuracy,
                         history, Qualifying(event, history))

\* the score command has scored a resolved event stored alone: its own
\* positive outcome makes the sub-score 100 where no prior event exists
C27_SelfScored ==
    /\ call.op = "cmd_score"
    /\ call.found /= NONE
    /\ call.found[1].outcome = "POSITIVE"
    /\ Len(eventsFile.rows) = 1
    /\ cur[1].score_breakdown.historical_accuracy = 10000

(***************************************************************************)
(* SpecResolve: a caller creates an Event with create_event, resolves it   *)
(* with resolve_event as often as it likes, stores it, and runs the        *)
(* resolve command on the stored record.  cur is the Event the caller      *)
(* holds, until it has stored it.                                          *)
(***************************************************************************)
\* the outcomes passed to resolve_event: any EventOutcome member
LibOutcomes == {"PENDING", "POSITIVE", "NEGATIVE"}

\* what the provider does during a library call
LibProviders == {ProviderMissing, ProviderEmpty, ProviderData, ProviderNoTicker}

InitResolve ==
    /\ eventsFile = AbsentFile
    /\ ratingsFile = AbsentFile
    /\ last = NoCall
    /\ latest = NoneSaved
    /\ today = 1
    /\ cur = NONE
    /\ call = [op |-> "none"]
    /\ probe = NoProbe

\* cur = create_event("abcd", ..., auto_market_context=auto), by the caller
\* that finds the store empty
LibCreate ==
    \E auto_market_context \in BOOLEAN, uuid8 \in Uuid8s,
       provider \in LibProviders :
        LET created == create_event(
                "abcd", "Acme Bio", "FDA_PDUFA", EventDate, "PDUFA decision",
                "NEUTRAL", NONE, NONE, NONE, NONE, "", auto_market_context,
                NONE, uuid8, provider)
        IN  /\ cur = NONE
            /\ ~eventsFile.exists
            /\ ~created.raised
            /\ cur' = Some(created.value)
            /\ call' = [op |-> "create_event"]
            /\ UNCHANGED <<eventsFile, ratingsFile, last, latest, today, probe>>

\* cur = resolve_event(cur, outcome, auto_fetch_moves=auto)
LibResolve ==
    \E outcome \in LibOutcomes, auto_fetch_moves \in BOOLEAN,
       provider \in LibProviders :
        LET resolved == resolve_event(cur[1], outcome, "", auto_fetch_moves,
                                      provider)
        IN  /\ cur /= NONE
            /\ ~resolved.raised
            /\ cur' = Some(resolved.value)
            /\ call' = [op |-> "resolve_event", before |-> cur[1],
                        outcome |-> outcome,
                        auto_fetch_moves |-> auto_fetch_moves,
                        provider |-> provider]
            /\ UNCHANGED <<eventsFile, ratingsFile, last, latest, today, probe>>

\* store.save_event(cur), the last thing the caller does with the Event
LibSave ==
    /\ cur /= NONE
    /\ eventsFile' = save_event(eventsFile, cur[1])
    /\ last' = [NoCall EXCEPT !.op = "save_event", !.event = cur, !.n = 1]
    /\ call' = [op |-> "save_event"]
    /\ cur' = NONE
    /\ UNCHANGED <<ratingsFile, latest, today, probe>>

NextResolve == LibCreate \/ LibResolve \/ LibSave \/ CmdResolve

SpecResolve == InitResolve /\ [][NextResolve]_vars

\* the Event carries no realized-move data
NoMoves(event) ==
    /\ event.actual_move_pct = NONE
    /\ event.spy_move_pct = NONE
    /\ event.xbi_move_pct = NONE
    /\ event.iv_crush_pct = NONE

\* C28: in every state reachable through create_event, resolve_event and
\* the resolve command, an Event whose outcome is pending has all of
\* actual_move_pct, spy_move_pct, xbi_move_pct and iv_crush_pct unset
\* (None); realized-move data is attached only to Events whose outcome is
\* not pending.
C28_PendingHasNoMoves ==
    /\ cur /= NONE => (cur[1].outcome = "PENDING" => NoMoves(cur[1]))
    /\ \A i \in DOMAIN load_events(eventsFile) :
          load_events(eventsFile)[i].outcome = "PENDING"
              => NoMoves(load_events(eventsFile)[i])

\* the same for every call that names an outcome other than pending, made
\* on an Event that satisfies it
C28_KeptByResolving ==
    (/\ call.op = "resolve_event"
     /\ call.outcome /= "PENDING"
     /\ call.before.outcome = "PENDING" => NoMoves(call.before))
    => (cur[1].outcome = "PENDING" => NoMoves(cur[1]))

\* resolve_event, called with the outcome pending while the provider had
\* data, has left a pending Event with moves
C28_PendingWithMoves ==
    /\ call.op = "resolve_event"
    /\ call.outcome = "PENDING"
    /\ call.auto_fetch_moves
    /\ NoMoves(call.before)
    /\ cur[1].outcome = "PENDING"
    /\ cur[1].actual_move_pct /= NONE
    /\ cur[1].spy_move_pct /= NONE

(***************************************************************************)
(* SpecUpsert: save_event called on backing files that are absent, not     *)
(* JSON, or lists of rows of which some may not decode                     *)
(***************************************************************************)
\* the events saved: one under each stored event_id, one under a new one
UpsertedEvents == {ZeroEvent(EventId1), ZeroEvent(EventId2), BareEvent(UnknownId)}

InitUpsert ==
    /\ eventsFile \in FilesOf(LoadedEventRows)
    /\ ratingsFile = AbsentFile
    /\ last = NoCall
    /\ latest = NoneSaved
    /\ today = 1
    /\ cur = NoRating
    /\ call = NoScoreCall
    /\ probe = NoProbe

\* store.save_event(event); probe keeps the file the call found
UpsertOnFile ==
    \E event \in UpsertedEvents :
        /\ eventsFile' = save_event(eventsFile, event)
        /\ last' = [NoCall EXCEPT !.op = "save_event", !.event = Some(event),
                                  !.n = 1]
        /\ probe' = [fn |-> "save_event",
                     arg |-> [file |-> eventsFile, event |-> event],
                     ret |-> NONE]
        /\ UNCHANGED <<ratingsFile, latest, today, cur, call>>

SpecUpsert == InitUpsert /\ [][UpsertOnFile]_vars

\* the Events persisted in the file under another event_id, in file order:
\* the rows that hold an Event, decoded
PersistedOthers(f, event_id) ==
    LET Other(row) == EventDecodes(row) /\ DictToEvent(row).event_id /= event_id
    IN  MapSeq(DictToEvent, FilterSeq(Other, f.rows))

\* C29: save_event(e) changes only the record keyed by e.event_id: in every
\* store state, including one whose backing file fails to decode, every
\* previously persisted Event with a different event_id is still persisted,
\* unchanged and in the same relative order, after the call.
C29_OthersKept ==
    probe.fn = "save_event" =>
        PersistedOthers(eventsFile, probe.arg.event.event_id)
            = PersistedOthers(probe.arg.file, probe.arg.event.event_id)

\* the same on the files load_events decodes, absent files included
C29_OthersKeptWhenDecodes ==
    (/\ probe.fn = "save_event"
     /\ \A i \in DOMAIN probe.arg.file.rows :
           EventDecodes(probe.arg.file.rows[i]))
    => C29_OthersKept

\* save_event has rewritten a file whose second row did not decode: the
\* Event of its first row, stored under another event_id, is gone
C29_OthersLost ==
    /\ probe.fn = "save_event"
    /\ Len(probe.arg.file.rows) = 2
    /\ EventDecodes(probe.arg.file.rows[1])
    /\ ~EventDecodes(probe.arg.file.rows[2])
    /\ probe.arg.file.rows[1].event_id /= probe.arg.event.event_id
    /\ Len(eventsFile.rows) = 1
    /\ eventsFile.rows[1].event_id = probe.arg.event.event_id

\* the provider yields no data for the symbol: the fetch raises, or returns
\* None
NoDataFor(provider, sym) ==
    \/ ~provider.yf_available
    \/ provider[sym].raises
    \/ Len(provider[sym].close) < 2

\* the move field of an Event that the fetch for a symbol fills
MoveField(event, sym) ==
    CASE sym = "TICKER" -> event.actual_move_pct
      [] sym = "SPY"    -> event.spy_move_pct
      [] sym = "XBI"    -> event.xbi_move_pct

\* resolve_event left these fields of the Event as they were
IdentityKept(before, after) ==
    /\ after.iv_crush_pct = before.iv_crush_pct
    /\ after.event_id = before.event_id
    /\ after.ticker = before.ticker
    /\ after.event_type = before.event_type
    /\ after.event_date = before.event_date
    /\ after.market_context = before.market_context

\* C30: resolve_event never erases realized-move data already recorded on
\* an Event: if actual_move_pct (or spy_move_pct, xbi_move_pct) is non-None
\* before a resolve_event call with auto_fetch_moves=true and the provider
\* yields no data for it, the field keeps its previous value; iv_crush_pct,
\* event_id, ticker, event_type, event_date and market_context are never
\* changed by resolve_event.
C30_NeverErases ==
    call.op = "resolve_event" =>
        /\ \A sym \in {"TICKER", "SPY", "XBI"} :
              (/\ MoveField(call.before, sym) /= NONE
               /\ call.auto_fetch_moves
               /\ NoDataFor(call.provider, sym))
              => MoveField(cur[1], sym) = MoveField(call.before, sym)
        /\ IdentityKept(call.before, cur[1])

\* what resolve_event keeps: the identity fields, the market context and
\* iv_crush_pct always, and the three moves when it does not fetch or when
\* the fetch raises because yfinance is missing
C30_KeptUnlessFetched ==
    call.op = "resolve_event" =>
        /\ IdentityKept(call.before, cur[1])
        /\ (~call.auto_fetch_moves \/ ~call.provider.yf_available) =>
              \A sym \in {"TICKER", "SPY", "XBI"} :
                  MoveField(cur[1], sym) = MoveField(call.before, sym)

\* resolve_event has erased the three moves recorded on an Event, the
\* downloads having returned empty frames
C30_MovesErased ==
    /\ call.op = "resolve_event"
    /\ call.auto_fetch_moves
    /\ call.provider = ProviderEmpty
    /\ call.before.actual_move_pct /= NONE
    /\ call.before.spy_move_pct /= NONE
    /\ call.before.xbi_move_pct /= NONE
    /\ cur[1].actual_move_pct = NONE
    /\ cur[1].spy_move_pct = NONE
    /\ cur[1].xbi_move_pct = NONE

====
